---------------------------- MODULE Spec2Model ----------------------------
(***************************************************************************)
(* Crossway: the rules engine (packages/socket: game types and rules),     *)
(* the room manager, the socket gateway and the rate limiter of the        *)
(* server, as one state machine.                                           *)
(*                                                                         *)
(* Conventions.  A JavaScript Map is a function whose DOMAIN is the set of *)
(* keys present.  null / undefined / "" of a string-valued slot is the     *)
(* empty string "" (every test the code makes on such a slot is a          *)
(* truthiness test or a comparison with a non-empty string).  An undefined *)
(* disconnectedAt is 0 (the code tests it by truthiness; Date.now() is     *)
(* never 0).  Time is counted in units of 15 s.                            *)
(***************************************************************************)
EXTENDS Integers, Sequences, FiniteSets, TLC

VARIABLES
    engineState,      \* a GameState value handed to the pure rules engine
    rooms,            \* RoomManager.store: roomId -> Room
    playerRooms,      \* RoomManager.playerRooms: playerId -> roomId
    disconnectTimers, \* room-manager disconnectTimers: <<roomId, playerId>> -> pending grace timeout
    intervals,        \* live setInterval handles of startBlitzTimer: handle -> closure
    roomTimers,       \* gateway roomTimers: roomId -> handle
    sockets,          \* socket.data of every socket, and whether it is open
    ipData,           \* RateLimiter.ipData: ip -> IpData
    now,              \* Date.now()
    emitted           \* the events the last handler emitted, in order

vars == <<engineState, rooms, playerRooms, disconnectTimers, intervals,
          roomTimers, sockets, ipData, now, emitted>>

serverVars == <<rooms, playerRooms, disconnectTimers, intervals,
                roomTimers, sockets, ipData, now, emitted>>

-----------------------------------------------------------------------------
(* Generic helpers for sequences and Maps.                                 *)

Range(s) == {s[i] : i \in DOMAIN s}

Includes(s, x) == \E i \in DOMAIN s : s[i] = x

MapSet(m, k, v) == [x \in (DOMAIN m) \cup {k} |-> IF x = k THEN v ELSE m[x]]

MapDelete(m, k) == [x \in (DOMAIN m) \ {k} |-> m[x]]

EmptyMap == [x \in {} |-> 0]

\* Array.prototype.filter(f).length
CountSeq(s, Test(_)) == Cardinality({i \in DOMAIN s : Test(s[i])})

\* Array.prototype.findIndex: the first index satisfying Test, 0 when none
FindIndex(s, Test(_)) ==
    IF \E i \in DOMAIN s : Test(s[i])
    THEN CHOOSE i \in DOMAIN s : Test(s[i]) /\ \A j \in 1..(i - 1) : ~Test(s[j])
    ELSE 0

\* Array.prototype.splice(index, 1), index counted from 1
RemoveAt(s, i) == [j \in 1..(Len(s) - 1) |-> IF j < i THEN s[j] ELSE s[j + 1]]

-----------------------------------------------------------------------------
(* Board topology and game types.                                          *)

Positions == {"L1", "L2", "L3", "R1", "R2", "R3", "CT", "CL", "CC", "CR", "CB"}

Players == {"blue", "red"}

BLUE_HOME == <<"L1", "L2", "L3">>
RED_HOME == <<"R1", "R2", "R3">>

BOARD_GRAPH ==
    [p \in Positions |->
        CASE p = "L1" -> <<"L2">>
          [] p = "L2" -> <<"L1", "L3", "CL">>
          [] p = "L3" -> <<"L2">>
          [] p = "R1" -> <<"R2">>
          [] p = "R2" -> <<"R1", "R3", "CR">>
          [] p = "R3" -> <<"R2">>
          [] p = "CT" -> <<"CC", "CL", "CR">>
          [] p = "CL" -> <<"CC", "CT", "CB", "L2">>
          [] p = "CC" -> <<"CT", "CL", "CR", "CB">>
          [] p = "CR" -> <<"CC", "CT", "CB", "R2">>
          [] p = "CB" -> <<"CC", "CL", "CR">>]

\* The order Array.prototype.sort() gives the position names (UTF-16 code units).
PosRank ==
    [p \in Positions |->
        CASE p = "CB" -> 1 [] p = "CC" -> 2 [] p = "CL" -> 3 [] p = "CR" -> 4
          [] p = "CT" -> 5 [] p = "L1" -> 6 [] p = "L2" -> 7 [] p = "L3" -> 8
          [] p = "R1" -> 9 [] p = "R2" -> 10 [] p = "R3" -> 11]

RECURSIVE SortPositions(_)
SortPositions(s) ==
    IF Len(s) = 0 THEN <<>>
    ELSE LET i == CHOOSE k \in DOMAIN s :
                      \A j \in DOMAIN s :
                          \/ PosRank[s[k]] < PosRank[s[j]]
                          \/ (PosRank[s[k]] = PosRank[s[j]] /\ k <= j)
         IN <<s[i]>> \o SortPositions(RemoveAt(s, i))

Opponent(player) == IF player = "blue" THEN "red" ELSE "blue"

createInitialGameState ==
    [currentPlayer |-> "blue",
     bluePieces |-> <<"L1", "L2", "L3">>,
     redPieces |-> <<"R1", "R2", "R3">>,
     selectedPiece |-> "",
     status |-> "playing",
     moveHistory |-> <<>>,
     boardStateHistory |-> <<>>,
     repetitionWarnings |-> [blue |-> 0, red |-> 0]]

createDefaultSettings ==
    [enabledRules |-> {"warning"}, blitzEnabled |-> FALSE, blitzTimeLimit |-> 10]

\* serializeBoardState without the sort of the positions
serializeBoardStateUnsorted(state) ==
    <<state.currentPlayer, state.bluePieces, state.redPieces>>

\* `${currentPlayer}:${sorted blue joined by ","}|${sorted red joined by ","}`
serializeBoardState(state) ==
    <<state.currentPlayer, SortPositions(state.bluePieces), SortPositions(state.redPieces)>>

getAllPiecePositions(state) == state.bluePieces \o state.redPieces

isPositionOccupied(position, state) == Includes(getAllPiecePositions(state), position)

getValidMovesAnyNeighbor(position, state) == BOARD_GRAPH[position]

getValidMoves(position, state) ==
    SelectSeq(BOARD_GRAPH[position], LAMBDA neighbor : ~isPositionOccupied(neighbor, state))

getPieceOwner(position, state) ==
    IF Includes(state.bluePieces, position) THEN "blue"
    ELSE IF Includes(state.redPieces, position) THEN "red"
    ELSE ""

canPlayerMove(player, state) ==
    LET pieces == IF player = "blue" THEN state.bluePieces ELSE state.redPieces
    IN \E i \in DOMAIN pieces : Len(getValidMoves(pieces[i], state)) > 0

checkWinConditionStalemateFirst(state) ==
    LET blueInRedHome == \A i \in DOMAIN state.bluePieces : Includes(RED_HOME, state.bluePieces[i])
        redInBlueHome == \A i \in DOMAIN state.redPieces : Includes(BLUE_HOME, state.redPieces[i])
    IN IF ~canPlayerMove(state.currentPlayer, state)
       THEN (IF state.currentPlayer = "blue" THEN "red_wins" ELSE "blue_wins")
       ELSE IF blueInRedHome THEN "blue_wins"
       ELSE IF redInBlueHome THEN "red_wins"
       ELSE "playing"

\* checkWinCondition without the test for a player who cannot move
checkWinConditionNoStalemate(state) ==
    LET blueInRedHome == \A i \in DOMAIN state.bluePieces : Includes(RED_HOME, state.bluePieces[i])
        redInBlueHome == \A i \in DOMAIN state.redPieces : Includes(BLUE_HOME, state.redPieces[i])
    IN IF blueInRedHome THEN "blue_wins"
       ELSE IF redInBlueHome THEN "red_wins"
       ELSE "playing"

checkWinCondition(state) ==
    LET blueInRedHome == \A i \in DOMAIN state.bluePieces : Includes(RED_HOME, state.bluePieces[i])
        redInBlueHome == \A i \in DOMAIN state.redPieces : Includes(BLUE_HOME, state.redPieces[i])
    IN IF blueInRedHome THEN "blue_wins"
       ELSE IF redInBlueHome THEN "red_wins"
       ELSE IF ~canPlayerMove(state.currentPlayer, state)
       THEN (IF state.currentPlayer = "blue" THEN "red_wins" ELSE "blue_wins")
       ELSE "playing"

\* The state makeMove builds once both of its checks have passed.
movedState(from, to, state, owner) ==
    LET newBluePieces ==
            IF owner = "blue"
            THEN [i \in DOMAIN state.bluePieces |->
                     IF state.bluePieces[i] = from THEN to ELSE state.bluePieces[i]]
            ELSE state.bluePieces
        newRedPieces ==
            IF owner = "red"
            THEN [i \in DOMAIN state.redPieces |->
                     IF state.redPieces[i] = from THEN to ELSE state.redPieces[i]]
            ELSE state.redPieces
        nextPlayer == Opponent(state.currentPlayer)
        newMove == [from |-> from, to |-> to, player |-> state.currentPlayer]
        newState == [currentPlayer |-> nextPlayer,
                     bluePieces |-> newBluePieces,
                     redPieces |-> newRedPieces,
                     selectedPiece |-> "",
                     status |-> "playing",
                     moveHistory |-> Append(state.moveHistory, newMove),
                     boardStateHistory |-> state.boardStateHistory,
                     repetitionWarnings |-> state.repetitionWarnings]
        pushed == [newState EXCEPT !.boardStateHistory =
                       Append(newState.boardStateHistory, serializeBoardState(newState))]
    IN [pushed EXCEPT !.status = checkWinCondition(pushed)]

makeMoveNoOwnerCheck(from, to, state) ==
    LET owner == getPieceOwner(from, state)
    IN IF owner = "" THEN state
       ELSE IF ~Includes(getValidMoves(from, state), to) THEN state
       ELSE movedState(from, to, state, owner)

\* makeMove that counts every applied move as a repetition warning
makeMoveCountingWarning(from, to, state) ==
    LET owner == getPieceOwner(from, state)
    IN IF owner = "" \/ owner # state.currentPlayer THEN state
       ELSE IF ~Includes(getValidMoves(from, state), to) THEN state
       ELSE [movedState(from, to, state, owner)
                EXCEPT !.repetitionWarnings[owner] = @ + 1]

makeMove(from, to, state) ==
    LET owner == getPieceOwner(from, state)
    IN IF owner = "" \/ owner # state.currentPlayer THEN state
       ELSE IF ~Includes(getValidMoves(from, state), to) THEN state
       ELSE movedState(from, to, state, owner)


\* detectPieceBounce that compares the last two recorded moves of either player
detectPieceBounceAnyPlayer(moveHistory, player) ==
    LET n == Len(moveHistory)
    IN IF n < 2 THEN FALSE
       ELSE LET first == moveHistory[n - 1]
                second == moveHistory[n]
            IN first.from = second.to /\ first.to = second.from

detectPieceBounce(moveHistory, player) ==
    LET playerMoves == SelectSeq(moveHistory, LAMBDA m : m.player = player)
        n == Len(playerMoves)
    IN IF n < 2 THEN FALSE
       ELSE LET first == playerMoves[n - 1]
                second == playerMoves[n]
            IN first.from = second.to /\ first.to = second.from

detectBoardRepetition(boardStateHistory) ==
    IF Len(boardStateHistory) = 0 THEN 0
    ELSE LET currentState == boardStateHistory[Len(boardStateHistory)]
         IN CountSeq(boardStateHistory, LAMBDA s : s = currentState)

\* checkRepetition that counts the recorded snapshots only, without the move's own
checkRepetitionRecordedOnly(from, to, state, enabledRules) ==
    LET simulatedMove == [from |-> from, to |-> to, player |-> state.currentPlayer]
        simulatedHistory == Append(state.moveHistory, simulatedMove)
        isPieceBounce == detectPieceBounce(simulatedHistory, state.currentPlayer)
        boardRepetitionCount == detectBoardRepetition(state.boardStateHistory)
        hasRepetition == isPieceBounce \/ boardRepetitionCount >= 3
        warningCount == state.repetitionWarnings[state.currentPlayer]
    IN [isPieceBounce |-> isPieceBounce,
        boardRepetitionCount |-> boardRepetitionCount,
        shouldWarn |-> hasRepetition /\ "warning" \in enabledRules,
        shouldBlock |-> hasRepetition /\ "block" \in enabledRules,
        shouldForfeit |-> hasRepetition /\ "forfeit" \in enabledRules /\ warningCount >= 2]

checkRepetition(from, to, state, enabledRules) ==
    LET simulatedMove == [from |-> from, to |-> to, player |-> state.currentPlayer]
        simulatedHistory == Append(state.moveHistory, simulatedMove)
        owner == getPieceOwner(from, state)
        newBluePieces ==
            IF owner = "blue"
            THEN [i \in DOMAIN state.bluePieces |->
                     IF state.bluePieces[i] = from THEN to ELSE state.bluePieces[i]]
            ELSE state.bluePieces
        newRedPieces ==
            IF owner = "red"
            THEN [i \in DOMAIN state.redPieces |->
                     IF state.redPieces[i] = from THEN to ELSE state.redPieces[i]]
            ELSE state.redPieces
        nextPlayer == Opponent(state.currentPlayer)
        simulatedState == [state EXCEPT !.currentPlayer = nextPlayer,
                                        !.bluePieces = newBluePieces,
                                        !.redPieces = newRedPieces]
        simulatedBoardState == serializeBoardState(simulatedState)
        simulatedBoardHistory == Append(state.boardStateHistory, simulatedBoardState)
        isPieceBounce == detectPieceBounce(simulatedHistory, state.currentPlayer)
        boardRepetitionCount == detectBoardRepetition(simulatedBoardHistory)
        hasRepetition == isPieceBounce \/ boardRepetitionCount >= 3
        warningCount == state.repetitionWarnings[state.currentPlayer]
    IN [isPieceBounce |-> isPieceBounce,
        boardRepetitionCount |-> boardRepetitionCount,
        shouldWarn |-> hasRepetition /\ "warning" \in enabledRules,
        shouldBlock |-> hasRepetition /\ "block" \in enabledRules,
        shouldForfeit |-> hasRepetition /\ "forfeit" \in enabledRules /\ warningCount >= 2]

\* makeMoveWithWarning that counts the warning for the player to move after the move
makeMoveWithWarningAfterFlip(from, to, state, incrementWarning) ==
    LET newState == makeMove(from, to, state)
    IN IF newState = state THEN state
       ELSE IF incrementWarning
       THEN LET player == newState.currentPlayer
            IN [newState EXCEPT !.repetitionWarnings[player] =
                                    state.repetitionWarnings[player] + 1]
       ELSE newState

makeMoveWithWarning(from, to, state, incrementWarning) ==
    LET newState == makeMove(from, to, state)
    IN IF newState = state THEN state
       ELSE IF incrementWarning
       THEN LET player == state.currentPlayer
            IN [newState EXCEPT !.repetitionWarnings[player] =
                                    state.repetitionWarnings[player] + 1]
       ELSE newState

forfeitGame(state, player) ==
    [state EXCEPT !.status = IF player = "blue" THEN "blue_forfeit" ELSE "red_forfeit",
                  !.selectedPiece = ""]

\* The (from, to) pairs getAllValidMovesForPlayer collects, as a set.
getAllValidMovesForPlayer(state, player) ==
    LET pieces == IF player = "blue" THEN state.bluePieces ELSE state.redPieces
    IN {m \in [from : Range(pieces), to : Positions] :
            Includes(getValidMoves(m.from, state), m.to)}

getRandomMoveOfOpponent(state) ==
    getAllValidMovesForPlayer(state, Opponent(state.currentPlayer))

\* getRandomMove: Math.random() picks any element of the list; the empty set
\* stands for the null it returns when the list is empty.
getRandomMove(state) == getAllValidMovesForPlayer(state, state.currentPlayer)

-----------------------------------------------------------------------------
(* The rules engine as a library: a caller holds a GameState value and     *)
(* applies makeMove to it.                                                 *)

\* Number of makeMove applications the engine specification follows.
EngineMaxMoves == 1

\* Every placement of three Blue and three Red pieces on distinct cells.
Placements ==
    {pl \in [blue : [1..3 -> Positions], red : [1..3 -> Positions]] :
        /\ PosRank[pl.blue[1]] < PosRank[pl.blue[2]]
        /\ PosRank[pl.blue[2]] < PosRank[pl.blue[3]]
        /\ PosRank[pl.red[1]] < PosRank[pl.red[2]]
        /\ PosRank[pl.red[2]] < PosRank[pl.red[3]]
        /\ Range(pl.blue) \cap Range(pl.red) = {}}

EngineStates ==
    {[createInitialGameState EXCEPT !.currentPlayer = c,
                                    !.bluePieces = pl.blue,
                                    !.redPieces = pl.red] :
        c \in Players, pl \in Placements}


-----------------------------------------------------------------------------
(* Configuration and time.  One time unit is 15 s.                         *)

\* RECONNECT_GRACE_PERIOD_MS = 30000
RECONNECT_GRACE_PERIOD_MS == 2

\* the 60000 ms window of checkMove / checkEvent / cleanup
ONE_MINUTE == 4

\* config.roomCreationCooldownMs (RATE_LIMIT_ROOM_COOLDOWN_MS, default 30000)
roomCreationCooldownMs == 2

\* config.maxConnectionsPerIp (RATE_LIMIT_MAX_CONNECTIONS)
maxConnectionsPerIp == 2

\* config.maxMovesPerMinute (RATE_LIMIT_MAX_MOVES_PER_MIN)
maxMovesPerMinute == 7

\* config.maxEventsPerMinute (RATE_LIMIT_MAX_EVENTS_PER_MIN)
maxEventsPerMinute == 2

\* RoomManager.maxRooms (MAX_ROOMS)
maxRooms == 1

\* Date.now() when the server starts: later than every window and cooldown.
StartTime == 2 * ONE_MINUTE

RoomIds == {"r1"}
PlayerIds == {"p1", "p2", "p3"}
SocketIds == {"s1", "s2", "s3"}
Passwords == {"", "pw", "xx"}

-----------------------------------------------------------------------------
(* Room manager.  The manager state is the record                          *)
(* [rooms, playerRooms, disconnectTimers]; every method returns the new    *)
(* manager state in field m and what the method returns in field result.   *)

JoinFailure(code) == [success |-> FALSE, code |-> code, color |-> "", isReconnect |-> FALSE]
JoinSuccess(color, isReconnect) ==
    [success |-> TRUE, code |-> "", color |-> color, isReconnect |-> isReconnect]

NoResult == [found |-> FALSE, roomId |-> "", color |-> "",
             roomDeleted |-> FALSE, isGracePeriod |-> FALSE]

canCreateRoomAlways(m) == TRUE

canCreateRoom(m) == Cardinality(DOMAIN m.rooms) < maxRooms

isActivePlayerConnectedOnly(p, t) == p.connected

\* activePlayers filter of createOrJoinRoom and cleanupStaleRooms
isActivePlayer(p, t) ==
    \/ p.connected
    \/ (p.disconnectedAt # 0 /\ t - p.disconnectedAt < RECONNECT_GRACE_PERIOD_MS)

\* expiredPlayer predicate of createOrJoinRoom
isExpiredPlayer(p, t) ==
    /\ ~p.connected
    /\ (p.disconnectedAt = 0 \/ t - p.disconnectedAt >= RECONNECT_GRACE_PERIOD_MS)

reconnectSeatKeepTimer(m, roomId, playerId, existing) ==
    [m |-> [rooms |-> [m.rooms EXCEPT ![roomId].players[existing].connected = TRUE,
                                      ![roomId].players[existing].disconnectedAt = 0],
            playerRooms |-> MapSet(m.playerRooms, playerId, roomId),
            disconnectTimers |-> m.disconnectTimers],
     result |-> JoinSuccess(m.rooms[roomId].players[existing].color, TRUE)]

\* createOrJoinRoom, existingPlayer branch: the joining id holds seat
\* number existing of the room.
reconnectSeat(m, roomId, playerId, existing) ==
    [m |-> [rooms |-> [m.rooms EXCEPT ![roomId].players[existing].connected = TRUE,
                                      ![roomId].players[existing].disconnectedAt = 0],
            playerRooms |-> MapSet(m.playerRooms, playerId, roomId),
            disconnectTimers |-> MapDelete(m.disconnectTimers, <<roomId, playerId>>)],
     result |-> JoinSuccess(m.rooms[roomId].players[existing].color, TRUE)]

takeOverSeatKeepTimer(m, roomId, playerId, expired) ==
    LET room == m.rooms[roomId]
    IN [m |-> [rooms |-> [m.rooms EXCEPT ![roomId].players[expired].id = playerId,
                                         ![roomId].players[expired].connected = TRUE,
                                         ![roomId].players[expired].disconnectedAt = 0],
               playerRooms |->
                   MapSet(MapDelete(m.playerRooms, room.players[expired].id),
                          playerId, roomId),
               disconnectTimers |-> m.disconnectTimers],
        result |-> JoinSuccess(room.players[expired].color, FALSE)]

\* createOrJoinRoom, expiredPlayer branch: seat number expired is handed to
\* the joining id.
takeOverSeat(m, roomId, playerId, expired) ==
    LET room == m.rooms[roomId]
    IN [m |-> [rooms |-> [m.rooms EXCEPT ![roomId].players[expired].id = playerId,
                                         ![roomId].players[expired].connected = TRUE,
                                         ![roomId].players[expired].disconnectedAt = 0],
               playerRooms |->
                   MapSet(MapDelete(m.playerRooms, room.players[expired].id),
                          playerId, roomId),
               disconnectTimers |->
                   MapDelete(m.disconnectTimers, <<roomId, room.players[expired].id>>)],
        result |-> JoinSuccess(room.players[expired].color, FALSE)]

appendSeatBlue(m, roomId, playerId) ==
    [m |-> [rooms |-> [m.rooms EXCEPT ![roomId].players =
                          Append(@, [id |-> playerId, color |-> "blue",
                                     connected |-> TRUE, disconnectedAt |-> 0])],
            playerRooms |-> MapSet(m.playerRooms, playerId, roomId),
            disconnectTimers |-> m.disconnectTimers],
     result |-> JoinSuccess("blue", FALSE)]

\* createOrJoinRoom, last branch of an existing room: a new seat.
appendSeat(m, roomId, playerId) ==
    LET room == m.rooms[roomId]
        color == IF Len(room.players) > 0 /\ room.players[1].color = "blue"
                 THEN "red" ELSE "blue"
        newPlayer == [id |-> playerId, color |-> color,
                      connected |-> TRUE, disconnectedAt |-> 0]
    IN [m |-> [rooms |-> [m.rooms EXCEPT ![roomId].players = Append(@, newPlayer)],
               playerRooms |-> MapSet(m.playerRooms, playerId, roomId),
               disconnectTimers |-> m.disconnectTimers],
        result |-> JoinSuccess(color, FALSE)]

\* createOrJoinRoom, no room of that id.
createRoom(m, roomId, playerId, password, t) ==
    IF ~canCreateRoom(m)
    THEN [m |-> m, result |-> JoinFailure("MAX_ROOMS_REACHED")]
    ELSE LET newPlayer == [id |-> playerId, color |-> "blue",
                           connected |-> TRUE, disconnectedAt |-> 0]
             newRoom == [id |-> roomId,
                         hostId |-> playerId,
                         password |-> password,
                         players |-> <<newPlayer>>,
                         gameState |-> createInitialGameState,
                         settings |-> createDefaultSettings,
                         createdAt |-> t]
         IN [m |-> [rooms |-> MapSet(m.rooms, roomId, newRoom),
                    playerRooms |-> MapSet(m.playerRooms, playerId, roomId),
                    disconnectTimers |-> m.disconnectTimers],
             result |-> JoinSuccess("blue", FALSE)]

createOrJoinRoomAnyPassword(m, roomId, playerId, password, t) ==
    IF roomId \in DOMAIN m.rooms
    THEN LET room == m.rooms[roomId]
             existing == FindIndex(room.players, LAMBDA p : p.id = playerId)
             expired == FindIndex(room.players, LAMBDA p : isExpiredPlayer(p, t))
         IN IF existing # 0
            THEN reconnectSeat(m, roomId, playerId, existing)
            ELSE IF CountSeq(room.players, LAMBDA p : isActivePlayer(p, t)) >= 2
            THEN [m |-> m, result |-> JoinFailure("ROOM_FULL")]
            ELSE IF expired # 0
            THEN takeOverSeat(m, roomId, playerId, expired)
            ELSE appendSeat(m, roomId, playerId)
    ELSE createRoom(m, roomId, playerId, password, t)

createOrJoinRoom(m, roomId, playerId, password, t) ==
    IF roomId \in DOMAIN m.rooms
    THEN LET room == m.rooms[roomId]
             existing == FindIndex(room.players, LAMBDA p : p.id = playerId)
             expired == FindIndex(room.players, LAMBDA p : isExpiredPlayer(p, t))
         IN IF room.password # "" /\ room.password # password
            THEN [m |-> m, result |-> JoinFailure("WRONG_PASSWORD")]
            ELSE IF existing # 0
            THEN reconnectSeat(m, roomId, playerId, existing)
            ELSE IF CountSeq(room.players, LAMBDA p : isActivePlayer(p, t)) >= 2
            THEN [m |-> m, result |-> JoinFailure("ROOM_FULL")]
            ELSE IF expired # 0
            THEN takeOverSeat(m, roomId, playerId, expired)
            ELSE appendSeat(m, roomId, playerId)
    ELSE createRoom(m, roomId, playerId, password, t)

\* The timeout armed for key <<roomId, playerId>> fires at or after due; the
\* existing timeout of the key is cleared and replaced.  onGraceExpired is the
\* room the caller's callback emits room:player_left to ("" when it emits
\* nothing); the callback's colour is that of the seat.
markPlayerDisconnected(m, playerId, onGraceExpired, t) ==
    IF playerId \notin DOMAIN m.playerRooms
    THEN [m |-> m, result |-> NoResult]
    ELSE LET roomId == m.playerRooms[playerId]
         IN IF roomId \notin DOMAIN m.rooms
            THEN [m |-> [m EXCEPT !.playerRooms = MapDelete(@, playerId)], result |-> NoResult]
            ELSE LET room == m.rooms[roomId]
                     idx == FindIndex(room.players, LAMBDA p : p.id = playerId)
                 IN IF idx = 0
                    THEN [m |-> [m EXCEPT !.playerRooms = MapDelete(@, playerId)],
                          result |-> NoResult]
                    ELSE [m |-> [rooms |-> [m.rooms EXCEPT
                                               ![roomId].players[idx].connected = FALSE,
                                               ![roomId].players[idx].disconnectedAt = t],
                                 playerRooms |-> m.playerRooms,
                                 disconnectTimers |->
                                     MapSet(m.disconnectTimers, <<roomId, playerId>>,
                                            [due |-> t + RECONNECT_GRACE_PERIOD_MS,
                                             onGraceExpired |-> onGraceExpired,
                                             color |-> room.players[idx].color])],
                          result |-> [found |-> TRUE, roomId |-> roomId,
                                      color |-> room.players[idx].color,
                                      roomDeleted |-> FALSE, isGracePeriod |-> TRUE]]

vacateSeatKeepHost(m, roomId, playerId, idx) ==
    LET room == m.rooms[roomId]
        players == RemoveAt(room.players, idx)
    IN [rooms |-> IF Len(players) = 0
                  THEN MapDelete(m.rooms, roomId)
                  ELSE [m.rooms EXCEPT ![roomId].players = players],
        playerRooms |-> MapDelete(m.playerRooms, playerId),
        disconnectTimers |-> m.disconnectTimers]

\* The seat removal shared by finalizeDisconnect and leaveRoom: splice the
\* seat, drop the index entry, destroy an emptied room, else migrate the host
\* to the first connected seat.
vacateSeat(m, roomId, playerId, idx) ==
    LET room == m.rooms[roomId]
        players == RemoveAt(room.players, idx)
        firstConnected == FindIndex(players, LAMBDA p : p.connected)
        hostId == IF room.hostId = playerId /\ firstConnected # 0
                  THEN players[firstConnected].id ELSE room.hostId
    IN [rooms |-> IF Len(players) = 0
                  THEN MapDelete(m.rooms, roomId)
                  ELSE [m.rooms EXCEPT ![roomId].players = players,
                                       ![roomId].hostId = hostId],
        playerRooms |-> MapDelete(m.playerRooms, playerId),
        disconnectTimers |-> m.disconnectTimers]

\* finalizeDisconnect that keeps a room whose last seat it removes
finalizeDisconnectKeepRoom(m, playerId) ==
    IF playerId \notin DOMAIN m.playerRooms THEN m
    ELSE LET roomId == m.playerRooms[playerId]
         IN IF roomId \notin DOMAIN m.rooms
            THEN [m EXCEPT !.playerRooms = MapDelete(@, playerId)]
            ELSE LET idx == FindIndex(m.rooms[roomId].players, LAMBDA p : p.id = playerId)
                 IN IF idx = 0
                    THEN [m EXCEPT !.playerRooms = MapDelete(@, playerId)]
                    ELSE [m EXCEPT !.rooms[roomId].players = RemoveAt(@, idx),
                                   !.playerRooms = MapDelete(@, playerId)]

finalizeDisconnect(m, playerId) ==
    IF playerId \notin DOMAIN m.playerRooms THEN m
    ELSE LET roomId == m.playerRooms[playerId]
         IN IF roomId \notin DOMAIN m.rooms
            THEN [m EXCEPT !.playerRooms = MapDelete(@, playerId)]
            ELSE LET idx == FindIndex(m.rooms[roomId].players, LAMBDA p : p.id = playerId)
                 IN IF idx = 0
                    THEN [m EXCEPT !.playerRooms = MapDelete(@, playerId)]
                    ELSE vacateSeat(m, roomId, playerId, idx)

\* leaveRoom that keeps the leaver's entry of the player index
leaveRoomKeepIndex(m, playerId) ==
    IF playerId \notin DOMAIN m.playerRooms
    THEN [m |-> m, result |-> NoResult]
    ELSE LET roomId == m.playerRooms[playerId]
             cleared == [m EXCEPT !.disconnectTimers = MapDelete(@, <<roomId, playerId>>)]
         IN IF roomId \notin DOMAIN m.rooms
            THEN [m |-> cleared, result |-> NoResult]
            ELSE LET room == m.rooms[roomId]
                     idx == FindIndex(room.players, LAMBDA p : p.id = playerId)
                 IN IF idx = 0
                    THEN [m |-> cleared, result |-> NoResult]
                    ELSE [m |-> [vacateSeat(cleared, roomId, playerId, idx)
                                    EXCEPT !.playerRooms = m.playerRooms],
                          result |-> [found |-> TRUE, roomId |-> roomId,
                                      color |-> room.players[idx].color,
                                      roomDeleted |-> Len(room.players) = 1,
                                      isGracePeriod |-> FALSE]]

leaveRoom(m, playerId) ==
    IF playerId \notin DOMAIN m.playerRooms
    THEN [m |-> m, result |-> NoResult]
    ELSE LET roomId == m.playerRooms[playerId]
             cleared == [m EXCEPT !.disconnectTimers = MapDelete(@, <<roomId, playerId>>)]
         IN IF roomId \notin DOMAIN m.rooms
            THEN [m |-> [cleared EXCEPT !.playerRooms = MapDelete(@, playerId)],
                  result |-> NoResult]
            ELSE LET room == m.rooms[roomId]
                     idx == FindIndex(room.players, LAMBDA p : p.id = playerId)
                 IN IF idx = 0
                    THEN [m |-> [cleared EXCEPT !.playerRooms = MapDelete(@, playerId)],
                          result |-> NoResult]
                    ELSE [m |-> vacateSeat(cleared, roomId, playerId, idx),
                          result |-> [found |-> TRUE, roomId |-> roomId,
                                      color |-> room.players[idx].color,
                                      roomDeleted |-> Len(room.players) = 1,
                                      isGracePeriod |-> FALSE]]

updateGameState(m, roomId, gameState) ==
    IF roomId \notin DOMAIN m.rooms THEN m
    ELSE [m EXCEPT !.rooms[roomId].gameState = gameState]

updateSettingsAnyPlayer(m, roomId, playerId, settings) ==
    IF roomId \notin DOMAIN m.rooms THEN [m |-> m, ok |-> FALSE]
    ELSE [m |-> [m EXCEPT !.rooms[roomId].settings = settings], ok |-> TRUE]

\* field ok is the boolean updateSettings returns
updateSettings(m, roomId, playerId, settings) ==
    IF roomId \notin DOMAIN m.rooms THEN [m |-> m, ok |-> FALSE]
    ELSE IF m.rooms[roomId].hostId # playerId THEN [m |-> m, ok |-> FALSE]
    ELSE [m |-> [m EXCEPT !.rooms[roomId].settings = settings], ok |-> TRUE]

resetGameAndSettings(m, roomId, playerId) ==
    IF roomId \notin DOMAIN m.rooms THEN [m |-> m, ok |-> FALSE]
    ELSE IF m.rooms[roomId].hostId # playerId THEN [m |-> m, ok |-> FALSE]
    ELSE [m |-> [m EXCEPT !.rooms[roomId].gameState = createInitialGameState,
                          !.rooms[roomId].settings = createDefaultSettings],
          ok |-> TRUE]

\* field ok is FALSE where resetGame returns null
resetGame(m, roomId, playerId) ==
    IF roomId \notin DOMAIN m.rooms THEN [m |-> m, ok |-> FALSE]
    ELSE IF m.rooms[roomId].hostId # playerId THEN [m |-> m, ok |-> FALSE]
    ELSE [m |-> [m EXCEPT !.rooms[roomId].gameState = createInitialGameState], ok |-> TRUE]


\* cleanupStaleRooms that does not look at the age of a room
cleanupStaleRoomsAnyAge(m, maxAgeMs, t) ==
    LET stale == {roomId \in DOMAIN m.rooms :
                     CountSeq(m.rooms[roomId].players, LAMBDA p : isActivePlayer(p, t)) = 0}
        keys == UNION {{<<roomId, m.rooms[roomId].players[i].id>> :
                           i \in DOMAIN m.rooms[roomId].players} : roomId \in stale}
        ids == {key[2] : key \in keys}
    IN [m |-> [rooms |-> [roomId \in DOMAIN m.rooms \ stale |-> m.rooms[roomId]],
               playerRooms |-> [p \in DOMAIN m.playerRooms \ ids |-> m.playerRooms[p]],
               disconnectTimers |->
                   [key \in DOMAIN m.disconnectTimers \ keys |-> m.disconnectTimers[key]]],
        cleaned |-> Cardinality(stale)]

\* field cleaned is the number cleanupStaleRooms returns
cleanupStaleRooms(m, maxAgeMs, t) ==
    LET stale == {roomId \in DOMAIN m.rooms :
                     /\ CountSeq(m.rooms[roomId].players,
                                 LAMBDA p : isActivePlayer(p, t)) = 0
                     /\ t - m.rooms[roomId].createdAt > maxAgeMs}
        keys == UNION {{<<roomId, m.rooms[roomId].players[i].id>> :
                           i \in DOMAIN m.rooms[roomId].players} : roomId \in stale}
        ids == {key[2] : key \in keys}
    IN [m |-> [rooms |-> [roomId \in DOMAIN m.rooms \ stale |-> m.rooms[roomId]],
               playerRooms |-> [p \in DOMAIN m.playerRooms \ ids |-> m.playerRooms[p]],
               disconnectTimers |->
                   [key \in DOMAIN m.disconnectTimers \ keys |-> m.disconnectTimers[key]]],
        cleaned |-> Cardinality(stale)]


-----------------------------------------------------------------------------
(* Rate limiter.  Every method returns the new ipData in field d.          *)

getOrCreateIpData(d, ip) ==
    IF ip \in DOMAIN d THEN d
    ELSE MapSet(d, ip, [connections |-> {}, lastRoomCreation |-> 0,
                        moveTimestamps |-> <<>>, eventTimestamps |-> <<>>])

isIpDataEmpty(data) ==
    /\ data.connections = {}
    /\ data.lastRoomCreation = 0
    /\ Len(data.moveTimestamps) = 0
    /\ Len(data.eventTimestamps) = 0

addConnectionUnlimited(d, ip, socketId) ==
    LET d1 == getOrCreateIpData(d, ip)
    IN [d |-> [d1 EXCEPT ![ip].connections = @ \cup {socketId}], allowed |-> TRUE]

addConnection(d, ip, socketId) ==
    LET d1 == getOrCreateIpData(d, ip)
    IN IF Cardinality(d1[ip].connections) >= maxConnectionsPerIp
       THEN [d |-> d1, allowed |-> FALSE]
       ELSE [d |-> [d1 EXCEPT ![ip].connections = @ \cup {socketId}], allowed |-> TRUE]

removeConnection(d, ip, socketId) ==
    IF ip \notin DOMAIN d THEN d
    ELSE LET d1 == [d EXCEPT ![ip].connections = @ \ {socketId}]
         IN IF d1[ip].connections = {} /\ isIpDataEmpty(d1[ip])
            THEN MapDelete(d1, ip) ELSE d1

checkRoomCreation(d, ip, isNewRoom, t) ==
    IF ~isNewRoom THEN [d |-> d, allowed |-> TRUE]
    ELSE LET d1 == getOrCreateIpData(d, ip)
             elapsed == t - d1[ip].lastRoomCreation
         IN IF elapsed < roomCreationCooldownMs
            THEN [d |-> d1, allowed |-> FALSE]
            ELSE [d |-> [d1 EXCEPT ![ip].lastRoomCreation = t], allowed |-> TRUE]

\* checkMove that records a rejected request as well
checkMoveRecordRejected(d, ip, t) ==
    LET d1 == getOrCreateIpData(d, ip)
        oneMinuteAgo == t - ONE_MINUTE
        kept == SelectSeq(d1[ip].moveTimestamps, LAMBDA x : x > oneMinuteAgo)
    IN [d |-> [d1 EXCEPT ![ip].moveTimestamps = Append(kept, t)],
        allowed |-> Len(kept) < maxMovesPerMinute]

checkMove(d, ip, t) ==
    LET d1 == getOrCreateIpData(d, ip)
        oneMinuteAgo == t - ONE_MINUTE
        kept == SelectSeq(d1[ip].moveTimestamps, LAMBDA x : x > oneMinuteAgo)
    IN IF Len(kept) >= maxMovesPerMinute
       THEN [d |-> [d1 EXCEPT ![ip].moveTimestamps = kept], allowed |-> FALSE]
       ELSE [d |-> [d1 EXCEPT ![ip].moveTimestamps = Append(kept, t)], allowed |-> TRUE]

checkEvent(d, ip, t) ==
    LET d1 == getOrCreateIpData(d, ip)
        oneMinuteAgo == t - ONE_MINUTE
        kept == SelectSeq(d1[ip].eventTimestamps, LAMBDA x : x > oneMinuteAgo)
    IN IF Len(kept) >= maxEventsPerMinute
       THEN [d |-> [d1 EXCEPT ![ip].eventTimestamps = kept], allowed |-> FALSE]
       ELSE [d |-> [d1 EXCEPT ![ip].eventTimestamps = Append(kept, t)], allowed |-> TRUE]

\* RateLimiter.cleanup that forgets the last room creation of every origin
cleanupForgetCreation(d, t) ==
    LET pruned == [ip \in DOMAIN d |->
                      [d[ip] EXCEPT
                          !.moveTimestamps = SelectSeq(@, LAMBDA x : x > t - ONE_MINUTE),
                          !.eventTimestamps = SelectSeq(@, LAMBDA x : x > t - ONE_MINUTE),
                          !.lastRoomCreation = 0]]
        kept == {ip \in DOMAIN d : ~isIpDataEmpty(pruned[ip])}
    IN [ip \in kept |-> pruned[ip]]

\* RateLimiter.cleanup, for every origin on record
cleanup(d, t) ==
    LET pruned == [ip \in DOMAIN d |->
                      [d[ip] EXCEPT
                          !.moveTimestamps = SelectSeq(@, LAMBDA x : x > t - ONE_MINUTE),
                          !.eventTimestamps = SelectSeq(@, LAMBDA x : x > t - ONE_MINUTE),
                          !.lastRoomCreation =
                             IF @ < t - roomCreationCooldownMs THEN 0 ELSE @]]
        kept == {ip \in DOMAIN d : ~isIpDataEmpty(pruned[ip])}
    IN [ip \in kept |-> pruned[ip]]

-----------------------------------------------------------------------------
(* Gateway: countdown timers.  The timer state is the record               *)
(* [intervals, roomTimers].                                                *)

\* An event emitted by a handler: its name, the error code or colour it
\* carries, and the timeLeft it carries (<<>> when it carries none).
Ev(event, code) == [event |-> event, code |-> code, timeLeft |-> <<>>]
EvTime(event, timeLeft) == [event |-> event, code |-> "", timeLeft |-> <<timeLeft>>]
Err(code) == Ev("room:error", code)

\* the handle setInterval returns: one no live interval has
NewHandle(iv) ==
    CHOOSE h \in 1..(Cardinality(DOMAIN iv) + 1) :
        h \notin DOMAIN iv /\ \A k \in 1..(h - 1) : k \in DOMAIN iv

clearRoomTimer(tm, roomId) ==
    IF roomId \in DOMAIN tm.roomTimers
    THEN [intervals |-> MapDelete(tm.intervals, tm.roomTimers[roomId]),
          roomTimers |-> MapDelete(tm.roomTimers, roomId)]
    ELSE tm

startBlitzTimerNoClear(tm, rms, roomId) ==
    IF \/ roomId \notin DOMAIN rms
       \/ ~rms[roomId].settings.blitzEnabled
       \/ rms[roomId].gameState.status # "playing"
    THEN clearRoomTimer(tm, roomId)
    ELSE LET timer == NewHandle(tm.intervals)
         IN [intervals |-> MapSet(tm.intervals, timer,
                                  [roomId |-> roomId,
                                   timeLeft |-> rms[roomId].settings.blitzTimeLimit]),
             roomTimers |-> MapSet(tm.roomTimers, roomId, timer)]

\* The synchronous part of startBlitzTimer; the interval callback is Tick.
startBlitzTimer(tm, rms, roomId) ==
    LET cleared == clearRoomTimer(tm, roomId)
    IN IF \/ roomId \notin DOMAIN rms
          \/ ~rms[roomId].settings.blitzEnabled
          \/ rms[roomId].gameState.status # "playing"
       THEN cleared
       ELSE LET timer == NewHandle(cleared.intervals)
            IN [intervals |-> MapSet(cleared.intervals, timer,
                                     [roomId |-> roomId,
                                      timeLeft |-> rms[roomId].settings.blitzTimeLimit]),
                roomTimers |-> MapSet(cleared.roomTimers, roomId, timer)]

-----------------------------------------------------------------------------
(* State, and the bounds of the model.                                     *)

\* Longest moveHistory the model follows; a request that the repetition
\* rules block is followed at every length.
MaxMoves == 7

\* Longest moveHistory a countdown expiry extends without ending the game;
\* an expiry whose move ends the game is followed at every length.
MaxTimedMoves == 3

\* How far Date.now() advances past StartTime.
MaxAdvance == 2

BlankSocket == [open |-> FALSE, clientIp |-> "", visiblePlayerId |-> "",
                roomId |-> "", color |-> ""]

manager == [rooms |-> rooms, playerRooms |-> playerRooms,
            disconnectTimers |-> disconnectTimers]

timers == [intervals |-> intervals, roomTimers |-> roomTimers]

SetManager(m) ==
    /\ rooms' = m.rooms
    /\ playerRooms' = m.playerRooms
    /\ disconnectTimers' = m.disconnectTimers

SetTimers(tm) ==
    /\ intervals' = tm.intervals
    /\ roomTimers' = tm.roomTimers

Init ==
    /\ engineState = createInitialGameState
    /\ rooms = EmptyMap
    /\ playerRooms = EmptyMap
    /\ disconnectTimers = EmptyMap
    /\ intervals = EmptyMap
    /\ roomTimers = EmptyMap
    /\ sockets = [s \in SocketIds |-> BlankSocket]
    /\ ipData = EmptyMap
    /\ now = StartTime
    /\ emitted = <<>>


-----------------------------------------------------------------------------
(* Gateway: the connection handler and the per-socket event handlers.     *)
(* socketToPlayer and playerToSocket are written by the handlers and read  *)
(* only to detach an older socket from the transport's broadcast group;    *)
(* they reach no state of this model and are left out.                     *)

\* io.on("connection"): a new socket from origin ip.
Connect(s, ip) ==
    /\ ~sockets[s].open
    /\ LET check == addConnection(ipData, ip, s)
       IN /\ ipData' = check.d
          /\ sockets' = IF check.allowed
                        THEN [sockets EXCEPT ![s] = [BlankSocket EXCEPT !.open = TRUE,
                                                                        !.clientIp = ip]]
                        ELSE sockets
          /\ emitted' = IF check.allowed THEN <<>> ELSE <<Err("RATE_LIMIT_CONNECTIONS")>>
    /\ UNCHANGED <<engineState, rooms, playerRooms, disconnectTimers, intervals,
                   roomTimers, now>>

\* socket.on("room:join")
Join(s, roomId, playerId, password) ==
    /\ sockets[s].open
    /\ LET sock == [sockets[s] EXCEPT !.visiblePlayerId = playerId]
           existingRoom == IF playerId \in DOMAIN playerRooms
                           THEN playerRooms[playerId] ELSE ""
           left == IF existingRoom # "" /\ existingRoom # roomId
                   THEN leaveRoom(manager, playerId)
                   ELSE [m |-> manager, result |-> NoResult]
           leftEvents == IF left.result.found /\ ~left.result.roomDeleted
                         THEN <<Ev("room:player_left", left.result.color)>> ELSE <<>>
           m1 == left.m
           isNewRoom == roomId \notin DOMAIN m1.rooms
           clientIp == sock.clientIp
           cooldownCheck == IF isNewRoom /\ clientIp # ""
                            THEN checkRoomCreation(ipData, clientIp, TRUE, now)
                            ELSE [d |-> ipData, allowed |-> TRUE]
           joined == createOrJoinRoom(m1, roomId, playerId, password, now)
       IN IF ~isNewRoom /\ m1.rooms[roomId].password # "" /\ password = ""
          THEN /\ SetManager(m1)
               /\ sockets' = [sockets EXCEPT ![s] = sock]
               /\ emitted' = leftEvents \o <<Ev("room:password_required", "")>>
               /\ UNCHANGED <<intervals, roomTimers, ipData>>
          ELSE IF ~cooldownCheck.allowed
          THEN /\ SetManager(m1)
               /\ sockets' = [sockets EXCEPT ![s] = sock]
               /\ ipData' = cooldownCheck.d
               /\ emitted' = leftEvents \o <<Err("RATE_LIMIT_ROOM_COOLDOWN")>>
               /\ UNCHANGED <<intervals, roomTimers>>
          ELSE IF ~joined.result.success
          THEN /\ SetManager(joined.m)
               /\ sockets' = [sockets EXCEPT ![s] = sock]
               /\ ipData' = cooldownCheck.d
               /\ emitted' = leftEvents \o <<Err(joined.result.code)>>
               /\ UNCHANGED <<intervals, roomTimers>>
          ELSE LET joinedRoom == joined.m.rooms[roomId]
                   connectedPlayers == CountSeq(joinedRoom.players, LAMBDA p : p.connected)
               IN /\ SetManager(joined.m)
                  /\ sockets' = [sockets EXCEPT ![s] = [sock EXCEPT
                                                           !.roomId = roomId,
                                                           !.color = joined.result.color]]
                  /\ ipData' = cooldownCheck.d
                  /\ emitted' = leftEvents \o
                                <<Ev("room:joined", joined.result.color),
                                  Ev(IF joined.result.isReconnect
                                     THEN "room:player_reconnected"
                                     ELSE "room:player_joined", joined.result.color)>>
                  /\ SetTimers(IF /\ joinedRoom.settings.blitzEnabled
                                  /\ joinedRoom.gameState.status = "playing"
                                  /\ connectedPlayers = 2
                               THEN startBlitzTimer(timers, joined.m.rooms, roomId)
                               ELSE timers)
    /\ UNCHANGED <<engineState, now>>

moveDecisionBlockFirst(from, to, gameState, enabledRules, playerColor) ==
    LET repetitionCheck == checkRepetition(from, to, gameState, enabledRules)
    IN IF repetitionCheck.shouldBlock
       THEN [blocked |-> TRUE, newState |-> gameState]
       ELSE IF repetitionCheck.shouldForfeit
       THEN [blocked |-> FALSE, newState |-> forfeitGame(gameState, playerColor)]
       ELSE IF repetitionCheck.shouldWarn
       THEN [blocked |-> FALSE, newState |-> makeMoveWithWarning(from, to, gameState, TRUE)]
       ELSE [blocked |-> FALSE, newState |-> makeMoveWithWarning(from, to, gameState, FALSE)]

\* What the game:move handler does once the five checks have passed:
\* the new game state, or rejection by MOVE_BLOCKED.
moveDecision(from, to, gameState, enabledRules, playerColor) ==
    LET repetitionCheck == checkRepetition(from, to, gameState, enabledRules)
    IN IF repetitionCheck.shouldForfeit
       THEN [blocked |-> FALSE, newState |-> forfeitGame(gameState, playerColor)]
       ELSE IF repetitionCheck.shouldBlock
       THEN [blocked |-> TRUE, newState |-> gameState]
       ELSE IF repetitionCheck.shouldWarn
       THEN [blocked |-> FALSE, newState |-> makeMoveWithWarning(from, to, gameState, TRUE)]
       ELSE [blocked |-> FALSE, newState |-> makeMoveWithWarning(from, to, gameState, FALSE)]

moveRejectionNoGameOver(from, to, gameState, playerColor) ==
    IF gameState.currentPlayer # playerColor THEN "NOT_YOUR_TURN"
    ELSE IF getPieceOwner(from, gameState) # playerColor THEN "NOT_YOUR_PIECE"
    ELSE IF ~Includes(getValidMoves(from, gameState), to) THEN "INVALID_MOVE"
    ELSE ""

moveRejectionNoTurnCheck(from, to, gameState, playerColor) ==
    IF gameState.status # "playing" THEN "GAME_OVER"
    ELSE IF getPieceOwner(from, gameState) # playerColor THEN "NOT_YOUR_PIECE"
    ELSE IF ~Includes(getValidMoves(from, gameState), to) THEN "INVALID_MOVE"
    ELSE ""

moveRejectionPieceFirst(from, to, gameState, playerColor) ==
    IF gameState.status # "playing" THEN "GAME_OVER"
    ELSE IF getPieceOwner(from, gameState) # playerColor THEN "NOT_YOUR_PIECE"
    ELSE IF gameState.currentPlayer # playerColor THEN "NOT_YOUR_TURN"
    ELSE IF ~Includes(getValidMoves(from, gameState), to) THEN "INVALID_MOVE"
    ELSE ""

\* The code the game:move handler rejects a request with whose socket is
\* bound and admitted by the move limiter and whose room exists; "" when
\* the request passes the four checks.
moveRejection(from, to, gameState, playerColor) ==
    IF gameState.status # "playing" THEN "GAME_OVER"
    ELSE IF gameState.currentPlayer # playerColor THEN "NOT_YOUR_TURN"
    ELSE IF getPieceOwner(from, gameState) # playerColor THEN "NOT_YOUR_PIECE"
    ELSE IF ~Includes(getValidMoves(from, gameState), to) THEN "INVALID_MOVE"
    ELSE ""

\* game:move that stops the countdown when the rules refuse the request
MoveRejectionStopsCountdown(s, from, to) ==
    /\ sockets[s].open
    /\ LET roomId == sockets[s].roomId
           playerColor == sockets[s].color
           playerId == sockets[s].visiblePlayerId
           clientIp == sockets[s].clientIp
           moveCheck == IF clientIp # "" THEN checkMove(ipData, clientIp, now)
                        ELSE [d |-> ipData, allowed |-> TRUE]
       IN IF roomId = "" \/ playerColor = "" \/ playerId = ""
          THEN /\ emitted' = <<Err("NOT_IN_ROOM")>>
               /\ UNCHANGED <<rooms, playerRooms, disconnectTimers, intervals,
                              roomTimers, ipData>>
          ELSE IF ~moveCheck.allowed
          THEN /\ emitted' = <<Err("RATE_LIMIT_MOVES")>>
               /\ ipData' = moveCheck.d
               /\ UNCHANGED <<rooms, playerRooms, disconnectTimers, intervals, roomTimers>>
          ELSE IF roomId \notin DOMAIN rooms
          THEN /\ emitted' = <<Err("ROOM_NOT_FOUND")>>
               /\ ipData' = moveCheck.d
               /\ UNCHANGED <<rooms, playerRooms, disconnectTimers, intervals, roomTimers>>
          ELSE LET room == rooms[roomId]
                   rejection == moveRejection(from, to, room.gameState, playerColor)
                   decision == moveDecision(from, to, room.gameState,
                                            room.settings.enabledRules, playerColor)
               IN /\ \/ Len(room.gameState.moveHistory) < MaxMoves
                     \/ (rejection = "" /\ decision.blocked)
                  /\ ipData' = moveCheck.d
                  /\ IF rejection # ""
                     THEN /\ emitted' = <<Err(rejection)>>
                          /\ SetTimers(clearRoomTimer(timers, roomId))
                          /\ UNCHANGED <<rooms, playerRooms, disconnectTimers>>
                     ELSE IF decision.blocked
                     THEN /\ emitted' = <<Err("MOVE_BLOCKED")>>
                          /\ UNCHANGED <<rooms, playerRooms, disconnectTimers,
                                         intervals, roomTimers>>
                     ELSE LET m1 == updateGameState(manager, roomId, decision.newState)
                          IN /\ SetManager(m1)
                             /\ IF room.settings.blitzEnabled
                                   /\ decision.newState.status = "playing"
                                THEN /\ emitted' = <<EvTime("game:state",
                                                            room.settings.blitzTimeLimit)>>
                                     /\ SetTimers(startBlitzTimer(timers, m1.rooms, roomId))
                                ELSE /\ emitted' = <<Ev("game:state", "")>>
                                     /\ SetTimers(clearRoomTimer(timers, roomId))
    /\ UNCHANGED <<engineState, sockets, now>>

\* socket.on("game:move")
Move(s, from, to) ==
    /\ sockets[s].open
    /\ LET roomId == sockets[s].roomId
           playerColor == sockets[s].color
           playerId == sockets[s].visiblePlayerId
           clientIp == sockets[s].clientIp
           moveCheck == IF clientIp # "" THEN checkMove(ipData, clientIp, now)
                        ELSE [d |-> ipData, allowed |-> TRUE]
       IN IF roomId = "" \/ playerColor = "" \/ playerId = ""
          THEN /\ emitted' = <<Err("NOT_IN_ROOM")>>
               /\ UNCHANGED <<rooms, playerRooms, disconnectTimers, intervals,
                              roomTimers, ipData>>
          ELSE IF ~moveCheck.allowed
          THEN /\ emitted' = <<Err("RATE_LIMIT_MOVES")>>
               /\ ipData' = moveCheck.d
               /\ UNCHANGED <<rooms, playerRooms, disconnectTimers, intervals, roomTimers>>
          ELSE IF roomId \notin DOMAIN rooms
          THEN /\ emitted' = <<Err("ROOM_NOT_FOUND")>>
               /\ ipData' = moveCheck.d
               /\ UNCHANGED <<rooms, playerRooms, disconnectTimers, intervals, roomTimers>>
          ELSE LET room == rooms[roomId]
                   rejection == moveRejection(from, to, room.gameState, playerColor)
                   decision == moveDecision(from, to, room.gameState,
                                            room.settings.enabledRules, playerColor)
               IN /\ \/ Len(room.gameState.moveHistory) < MaxMoves
                     \/ (rejection = "" /\ decision.blocked)
                  /\ ipData' = moveCheck.d
                  /\ IF rejection # ""
                     THEN /\ emitted' = <<Err(rejection)>>
                          /\ UNCHANGED <<rooms, playerRooms, disconnectTimers,
                                         intervals, roomTimers>>
                     ELSE IF decision.blocked
                     THEN /\ emitted' = <<Err("MOVE_BLOCKED")>>
                          /\ UNCHANGED <<rooms, playerRooms, disconnectTimers,
                                         intervals, roomTimers>>
                     ELSE LET m1 == updateGameState(manager, roomId, decision.newState)
                          IN /\ SetManager(m1)
                             /\ IF room.settings.blitzEnabled
                                   /\ decision.newState.status = "playing"
                                THEN /\ emitted' = <<EvTime("game:state",
                                                            room.settings.blitzTimeLimit)>>
                                     /\ SetTimers(startBlitzTimer(timers, m1.rooms, roomId))
                                ELSE /\ emitted' = <<Ev("game:state", "")>>
                                     /\ SetTimers(clearRoomTimer(timers, roomId))
    /\ UNCHANGED <<engineState, sockets, now>>

\* The setInterval callback of startBlitzTimer, for the live interval handle.
Tick(handle) ==
    /\ handle \in DOMAIN intervals
    /\ LET roomId == intervals[handle].roomId
       IN IF roomId \notin DOMAIN rooms \/ rooms[roomId].gameState.status # "playing"
          THEN /\ SetTimers(clearRoomTimer(timers, roomId))
               /\ emitted' = <<>>
               /\ UNCHANGED <<rooms, playerRooms, disconnectTimers>>
          ELSE LET currentRoom == rooms[roomId]
                   timeLeft == intervals[handle].timeLeft - 1
                   ticked == [timers EXCEPT !.intervals[handle].timeLeft = timeLeft]
                   cleared == clearRoomTimer(ticked, roomId)
                   randomMoves == getRandomMove(currentRoom.gameState)
               IN IF timeLeft > 0
                  THEN /\ SetTimers(ticked)
                       /\ emitted' = <<EvTime("game:timer", timeLeft)>>
                       /\ UNCHANGED <<rooms, playerRooms, disconnectTimers>>
                  ELSE IF randomMoves = {}
                  THEN /\ SetTimers(cleared)
                       /\ emitted' = <<EvTime("game:timer", timeLeft)>>
                       /\ UNCHANGED <<rooms, playerRooms, disconnectTimers>>
                  ELSE \E randomMove \in randomMoves :
                            LET newState == makeMove(randomMove.from, randomMove.to,
                                                     currentRoom.gameState)
                                m1 == updateGameState(manager, roomId, newState)
                            IN /\ \/ Len(currentRoom.gameState.moveHistory) < MaxTimedMoves
                                  \/ newState.status # "playing"
                               /\ SetManager(m1)
                               /\ emitted' = <<EvTime("game:timer", timeLeft),
                                               EvTime("game:state",
                                                      currentRoom.settings.blitzTimeLimit)>>
                               /\ SetTimers(IF newState.status = "playing"
                                               /\ currentRoom.settings.blitzEnabled
                                            THEN startBlitzTimer(cleared, m1.rooms, roomId)
                                            ELSE cleared)
    /\ UNCHANGED <<engineState, sockets, ipData, now>>

\* socket.on("game:settings")
Settings(s, settings) ==
    /\ sockets[s].open
    /\ LET roomId == sockets[s].roomId
           playerId == sockets[s].visiblePlayerId
           clientIp == sockets[s].clientIp
           eventCheck == IF clientIp # "" THEN checkEvent(ipData, clientIp, now)
                         ELSE [d |-> ipData, allowed |-> TRUE]
           updated == updateSettings(manager, roomId, playerId, settings)
       IN IF roomId = "" \/ playerId = ""
          THEN /\ emitted' = <<Err("NOT_IN_ROOM")>>
               /\ UNCHANGED <<rooms, playerRooms, disconnectTimers, intervals,
                              roomTimers, ipData>>
          ELSE IF ~eventCheck.allowed
          THEN /\ emitted' = <<Err("RATE_LIMIT_EVENTS")>>
               /\ ipData' = eventCheck.d
               /\ UNCHANGED <<rooms, playerRooms, disconnectTimers, intervals, roomTimers>>
          ELSE IF ~updated.ok
          THEN /\ emitted' = <<Err("NOT_HOST")>>
               /\ ipData' = eventCheck.d
               /\ UNCHANGED <<rooms, playerRooms, disconnectTimers, intervals, roomTimers>>
          ELSE LET room == updated.m.rooms[roomId]
               IN /\ SetManager(updated.m)
                  /\ ipData' = eventCheck.d
                  /\ emitted' = <<Ev("game:settings", "")>>
                  /\ SetTimers(IF /\ settings.blitzEnabled
                                  /\ room.gameState.status = "playing"
                                  /\ Len(room.players) = 2
                               THEN startBlitzTimer(timers, updated.m.rooms, roomId)
                               ELSE IF ~settings.blitzEnabled
                               THEN clearRoomTimer(timers, roomId)
                               ELSE timers)
    /\ UNCHANGED <<engineState, sockets, now>>

\* socket.on("game:reset")
Reset(s) ==
    /\ sockets[s].open
    /\ LET roomId == sockets[s].roomId
           playerId == sockets[s].visiblePlayerId
           clientIp == sockets[s].clientIp
           eventCheck == IF clientIp # "" THEN checkEvent(ipData, clientIp, now)
                         ELSE [d |-> ipData, allowed |-> TRUE]
           newState == resetGame(manager, roomId, playerId)
       IN IF roomId = "" \/ playerId = ""
          THEN /\ emitted' = <<Err("NOT_IN_ROOM")>>
               /\ UNCHANGED <<rooms, playerRooms, disconnectTimers, intervals,
                              roomTimers, ipData>>
          ELSE IF ~eventCheck.allowed
          THEN /\ emitted' = <<Err("RATE_LIMIT_EVENTS")>>
               /\ ipData' = eventCheck.d
               /\ UNCHANGED <<rooms, playerRooms, disconnectTimers, intervals, roomTimers>>
          ELSE IF ~newState.ok
          THEN /\ emitted' = <<Err("NOT_HOST")>>
               /\ ipData' = eventCheck.d
               /\ UNCHANGED <<rooms, playerRooms, disconnectTimers, intervals, roomTimers>>
          ELSE LET room == newState.m.rooms[roomId]
               IN /\ SetManager(newState.m)
                  /\ ipData' = eventCheck.d
                  /\ IF room.settings.blitzEnabled /\ Len(room.players) = 2
                     THEN /\ emitted' = <<EvTime("game:state", room.settings.blitzTimeLimit)>>
                          /\ SetTimers(startBlitzTimer(timers, newState.m.rooms, roomId))
                     ELSE /\ emitted' = <<Ev("game:state", "")>>
                          /\ SetTimers(clearRoomTimer(timers, roomId))
    /\ UNCHANGED <<engineState, sockets, now>>

\* socket.on("room:leave"): handleLeave(io, socket, false)
Leave(s) ==
    /\ sockets[s].open
    /\ LET playerId == sockets[s].visiblePlayerId
           roomId == sockets[s].roomId
           result == leaveRoom(manager, playerId)
       IN IF playerId = ""
          THEN /\ emitted' = <<>>
               /\ UNCHANGED <<rooms, playerRooms, disconnectTimers, intervals, roomTimers>>
          ELSE /\ SetManager(result.m)
               /\ emitted' = IF result.result.found /\ ~result.result.roomDeleted
                                /\ roomId # ""
                             THEN <<Ev("room:player_left", result.result.color)>>
                             ELSE <<>>
               /\ SetTimers(IF result.result.found /\ result.result.roomDeleted
                               /\ roomId # ""
                            THEN clearRoomTimer(timers, roomId)
                            ELSE timers)
    /\ UNCHANGED <<engineState, sockets, ipData, now>>

\* The socket closes: the connection handler's disconnect listener
\* (removeConnection), then handleLeave(io, socket, true).
Disconnect(s) ==
    /\ sockets[s].open
    /\ LET playerId == sockets[s].visiblePlayerId
           roomId == sockets[s].roomId
           result == markPlayerDisconnected(manager, playerId, roomId, now)
       IN /\ ipData' = removeConnection(ipData, sockets[s].clientIp, s)
          /\ sockets' = [sockets EXCEPT ![s] = BlankSocket]
          /\ IF playerId = ""
             THEN /\ emitted' = <<>>
                  /\ UNCHANGED <<rooms, playerRooms, disconnectTimers>>
             ELSE /\ SetManager(result.m)
                  /\ emitted' = IF result.result.found /\ result.result.isGracePeriod
                                   /\ roomId # ""
                                THEN <<Ev("room:player_disconnected", result.result.color)>>
                                ELSE <<>>
    /\ UNCHANGED <<engineState, intervals, roomTimers, now>>

\* The setTimeout callback of markPlayerDisconnected for a pending key.
GraceExpire(key) ==
    /\ key \in DOMAIN disconnectTimers
    /\ now >= disconnectTimers[key].due
    /\ LET timer == disconnectTimers[key]
           m1 == [manager EXCEPT !.disconnectTimers = MapDelete(@, key)]
       IN /\ SetManager(finalizeDisconnect(m1, key[2]))
          /\ emitted' = IF timer.onGraceExpired # ""
                        THEN <<Ev("room:player_left", timer.color)>> ELSE <<>>
    /\ UNCHANGED <<engineState, intervals, roomTimers, sockets, ipData, now>>

\* The setInterval callback of the RateLimiter constructor.
Cleanup ==
    /\ ipData' = cleanup(ipData, now)
    /\ emitted' = <<>>
    /\ UNCHANGED <<engineState, rooms, playerRooms, disconnectTimers, intervals,
                   roomTimers, sockets, now>>

\* The setInterval callback of the server: cleanupStaleRooms with the age
\* threshold maxAgeMs, and the console.log of the number cleaned.
Sweep(maxAgeMs) ==
    /\ LET swept == cleanupStaleRooms(manager, maxAgeMs, now)
       IN /\ SetManager(swept.m)
          /\ emitted' = IF swept.cleaned > 0
                        THEN <<EvTime("console.log", swept.cleaned)>> ELSE <<>>
    /\ UNCHANGED <<engineState, intervals, roomTimers, sockets, ipData, now>>

\* Time passes.
Advance ==
    /\ now < StartTime + MaxAdvance
    /\ now' = now + 1
    /\ UNCHANGED <<engineState, rooms, playerRooms, disconnectTimers, intervals,
                   roomTimers, sockets, ipData, emitted>>

\* A caller of the rules engine applies makeMove to the state it holds.
EngineMove(from, to) ==
    /\ Len(engineState.moveHistory) < EngineMaxMoves
    /\ engineState' = makeMove(from, to, engineState)
    /\ UNCHANGED serverVars

\* Longest moveHistory the repetition specification extends.
MaxHistory == 3

\* A caller of the rules engine does with the state it holds what the
\* game:move handler does with a legal request: checkRepetition, then
\* forfeitGame, nothing, or makeMoveWithWarning.
EngineCheckedMove(from, to, enabledRules) ==
    /\ Len(engineState.moveHistory) < MaxHistory
    /\ engineState.status = "playing"
    /\ getPieceOwner(from, engineState) = engineState.currentPlayer
    /\ Includes(getValidMoves(from, engineState), to)
    /\ engineState' = moveDecision(from, to, engineState, enabledRules,
                                   engineState.currentPlayer).newState
    /\ UNCHANGED serverVars


-----------------------------------------------------------------------------
(* Specifications.                                                         *)

\* The requests a client sends as game:move: every step between two
\* neighbouring cells of the two homes and the middle row, and one request
\* whose to is no neighbour of its from.
RequestCells == {"L2", "CL", "CC", "CR", "R2"}

MoveRequests ==
    {r \in [from : RequestCells, to : RequestCells] : Includes(BOARD_GRAPH[r.from], r.to)}
    \cup {[from |-> "L2", to |-> "CC"]}

\* The settings a host sends as game:settings.
SettingsRequests ==
    {[enabledRules |-> {"warning", "forfeit"}, blitzEnabled |-> FALSE, blitzTimeLimit |-> 10],
     [enabledRules |-> {"warning", "block", "forfeit"}, blitzEnabled |-> FALSE,
      blitzTimeLimit |-> 10],
     [enabledRules |-> {"forfeit"}, blitzEnabled |-> FALSE, blitzTimeLimit |-> 10],
     [enabledRules |-> {"warning", "forfeit"}, blitzEnabled |-> TRUE, blitzTimeLimit |-> 2]}

\* The rules engine used as a library, from any placement of the pieces.
InitEngine ==
    /\ engineState \in EngineStates
    /\ rooms = EmptyMap
    /\ playerRooms = EmptyMap
    /\ disconnectTimers = EmptyMap
    /\ intervals = EmptyMap
    /\ roomTimers = EmptyMap
    /\ sockets = [s \in SocketIds |-> BlankSocket]
    /\ ipData = EmptyMap
    /\ now = StartTime
    /\ emitted = <<>>

NextEngine == \E from \in Positions, to \in Positions : EngineMove(from, to)

SpecEngine == InitEngine /\ [][NextEngine]_vars

\* One game room: p1 has created room r1 over socket s1 and p2 has joined
\* it over socket s2, both from origin ip1 (the state Connect, Connect,
\* Join, Join lead to).
GameSockets == {"s1", "s2"}

GameRoom ==
    [id |-> "r1",
     hostId |-> "p1",
     password |-> "",
     players |-> <<[id |-> "p1", color |-> "blue", connected |-> TRUE, disconnectedAt |-> 0],
                   [id |-> "p2", color |-> "red", connected |-> TRUE, disconnectedAt |-> 0]>>,
     gameState |-> createInitialGameState,
     settings |-> createDefaultSettings,
     createdAt |-> StartTime]

InitGame ==
    /\ engineState = createInitialGameState
    /\ rooms = MapSet(EmptyMap, "r1", GameRoom)
    /\ playerRooms = MapSet(MapSet(EmptyMap, "p1", "r1"), "p2", "r1")
    /\ disconnectTimers = EmptyMap
    /\ intervals = EmptyMap
    /\ roomTimers = EmptyMap
    /\ sockets = [s \in SocketIds |->
                     IF s = "s1"
                     THEN [open |-> TRUE, clientIp |-> "ip1", visiblePlayerId |-> "p1",
                           roomId |-> "r1", color |-> "blue"]
                     ELSE IF s = "s2"
                     THEN [open |-> TRUE, clientIp |-> "ip1", visiblePlayerId |-> "p2",
                           roomId |-> "r1", color |-> "red"]
                     ELSE BlankSocket]
    /\ ipData = MapSet(EmptyMap, "ip1",
                       [connections |-> {"s1", "s2"}, lastRoomCreation |-> StartTime,
                        moveTimestamps |-> <<>>, eventTimestamps |-> <<>>])
    /\ now = StartTime
    /\ emitted = <<>>

Next ==
    \/ \E s \in GameSockets, r \in MoveRequests : Move(s, r.from, r.to)
    \/ \E handle \in DOMAIN intervals : Tick(handle)
    \/ \E s \in GameSockets, settings \in SettingsRequests : Settings(s, settings)
    \/ \E s \in GameSockets : Reset(s)

Spec == InitGame /\ [][Next]_vars


\* One game played by hand under a rule set that includes forfeit: the
\* host has sent game:settings once before the first move, and the two
\* players send game:move requests.
ForfeitRuleSets ==
    {{"forfeit"}, {"warning", "forfeit"}, {"block", "forfeit"},
     {"warning", "block", "forfeit"}}

InitRules ==
    /\ engineState = createInitialGameState
    /\ \E enabledRules \in ForfeitRuleSets :
          rooms = MapSet(EmptyMap, "r1",
                         [GameRoom EXCEPT !.settings.enabledRules = enabledRules])
    /\ playerRooms = MapSet(MapSet(EmptyMap, "p1", "r1"), "p2", "r1")
    /\ disconnectTimers = EmptyMap
    /\ intervals = EmptyMap
    /\ roomTimers = EmptyMap
    /\ sockets = [s \in SocketIds |->
                     IF s = "s1"
                     THEN [open |-> TRUE, clientIp |-> "ip1", visiblePlayerId |-> "p1",
                           roomId |-> "r1", color |-> "blue"]
                     ELSE IF s = "s2"
                     THEN [open |-> TRUE, clientIp |-> "ip1", visiblePlayerId |-> "p2",
                           roomId |-> "r1", color |-> "red"]
                     ELSE BlankSocket]
    /\ ipData = MapSet(EmptyMap, "ip1",
                       [connections |-> {"s1", "s2"}, lastRoomCreation |-> StartTime,
                        moveTimestamps |-> <<>>, eventTimestamps |-> <<StartTime>>])
    /\ now = StartTime
    /\ emitted = <<Ev("game:settings", "")>>

NextRules == \E s \in GameSockets, r \in MoveRequests : Move(s, r.from, r.to)

SpecRules == InitRules /\ [][NextRules]_vars

\* The lobby: three clients, each with its own player id and origin (the
\* first two share one), connect, join room r1 without a password and
\* close, while time passes and grace timers expire.  A client that
\* connects again gets a socket of the same name.
OriginOf == [s \in SocketIds |-> IF s = "s3" THEN "ip2" ELSE "ip1"]

PlayerOf == [s \in SocketIds |-> IF s = "s1" THEN "p1" ELSE IF s = "s2" THEN "p2" ELSE "p3"]

NextLobby ==
    \/ \E s \in SocketIds : Connect(s, OriginOf[s])
    \/ \E s \in SocketIds, roomId \in RoomIds :
          Join(s, roomId, PlayerOf[s], "")
    \/ \E s \in SocketIds : Disconnect(s)
    \/ \E key \in DOMAIN disconnectTimers : GraceExpire(key)
    \/ Advance

SpecLobby == Init /\ [][NextLobby]_vars

\* The lobby of a room with a password: the three clients join room r1,
\* which is created with the password pw whenever it does not exist, with
\* no password, with pw or with another password, close and connect again,
\* while time passes and grace timers expire.
NextPassword ==
    \/ \E s \in SocketIds : Connect(s, OriginOf[s])
    \/ \E s \in SocketIds, password \in Passwords :
          /\ "r1" \in DOMAIN rooms \/ password = "pw"
          /\ Join(s, "r1", PlayerOf[s], password)
    \/ \E s \in SocketIds : Disconnect(s)
    \/ \E key \in DOMAIN disconnectTimers : GraceExpire(key)
    \/ Advance

SpecPassword == Init /\ [][NextPassword]_vars

\* Two room ids under the room cap: the three clients are connected and
\* join either room, leave, and time passes.
TwoRoomIds == {"r1", "r2"}

InitCap ==
    /\ engineState = createInitialGameState
    /\ rooms = EmptyMap
    /\ playerRooms = EmptyMap
    /\ disconnectTimers = EmptyMap
    /\ intervals = EmptyMap
    /\ roomTimers = EmptyMap
    /\ sockets = [s \in SocketIds |->
                     [BlankSocket EXCEPT !.open = TRUE, !.clientIp = OriginOf[s]]]
    /\ ipData = addConnection(
                   addConnection(
                      addConnection(EmptyMap, "ip1", "s1").d, "ip1", "s2").d,
                   "ip2", "s3").d
    /\ now = StartTime
    /\ emitted = <<>>

NextCap ==
    \/ \E s \in SocketIds, roomId \in TwoRoomIds : Join(s, roomId, PlayerOf[s], "")
    \/ \E s \in SocketIds : Leave(s)
    \/ Advance

SpecCap == InitCap /\ [][NextCap]_vars

\* The game room with joins: besides moving, changing the settings and
\* resetting, the two seated clients send room:join for their room again.
NextBlitz ==
    \/ \E s \in GameSockets, r \in MoveRequests : Move(s, r.from, r.to)
    \/ \E h \in DOMAIN intervals : Tick(h)
    \/ \E s \in GameSockets, settings \in SettingsRequests : Settings(s, settings)
    \/ \E s \in GameSockets : Reset(s)
    \/ \E s \in GameSockets : Join(s, "r1", PlayerOf[s], "")

SpecBlitz == InitGame /\ [][NextBlitz]_vars

\* Two clients and their seats: the first two clients connect, join room
\* r1, leave, close and connect again, while time passes and grace timers
\* expire.
NextSeats ==
    \/ \E s \in GameSockets : Connect(s, OriginOf[s])
    \/ \E s \in GameSockets : Join(s, "r1", PlayerOf[s], "")
    \/ \E s \in GameSockets : Leave(s)
    \/ \E s \in GameSockets : Disconnect(s)
    \/ \E key \in DOMAIN disconnectTimers : GraceExpire(key)
    \/ Advance

SpecSeats == Init /\ [][NextSeats]_vars

\* Three clients and two seats: the three connected clients join room r1,
\* leave and close, while time passes and grace timers expire.
NextSeating ==
    \/ \E s \in SocketIds : Join(s, "r1", PlayerOf[s], "")
    \/ \E s \in SocketIds : Leave(s)
    \/ \E s \in SocketIds : Disconnect(s)
    \/ \E key \in DOMAIN disconnectTimers : GraceExpire(key)
    \/ Advance

SpecSeating == InitCap /\ [][NextSeating]_vars

\* The game room and a bystander: the two seated clients and a third
\* client, connected from another origin and bound to no room, send
\* game:move requests.
InitMoves ==
    /\ engineState = createInitialGameState
    /\ rooms = MapSet(EmptyMap, "r1", GameRoom)
    /\ playerRooms = MapSet(MapSet(EmptyMap, "p1", "r1"), "p2", "r1")
    /\ disconnectTimers = EmptyMap
    /\ intervals = EmptyMap
    /\ roomTimers = EmptyMap
    /\ sockets = [s \in SocketIds |->
                     IF s = "s1"
                     THEN [open |-> TRUE, clientIp |-> "ip1", visiblePlayerId |-> "p1",
                           roomId |-> "r1", color |-> "blue"]
                     ELSE IF s = "s2"
                     THEN [open |-> TRUE, clientIp |-> "ip1", visiblePlayerId |-> "p2",
                           roomId |-> "r1", color |-> "red"]
                     ELSE [BlankSocket EXCEPT !.open = TRUE, !.clientIp = "ip2"]]
    /\ ipData = MapSet(MapSet(EmptyMap, "ip1",
                              [connections |-> {"s1", "s2"}, lastRoomCreation |-> StartTime,
                               moveTimestamps |-> <<>>, eventTimestamps |-> <<>>]),
                       "ip2",
                       [connections |-> {"s3"}, lastRoomCreation |-> 0,
                        moveTimestamps |-> <<>>, eventTimestamps |-> <<>>])
    /\ now = StartTime
    /\ emitted = <<>>

NextMoves == \E s \in SocketIds, r \in MoveRequests : Move(s, r.from, r.to)

SpecMoves == InitMoves /\ [][NextMoves]_vars

\* Connections and origins: each of the three clients connects from either
\* of two origins, joins room r1 and closes, while time passes and the
\* limiter's cleanup runs.
Origins == {"ip1", "ip2"}

NextOrigins ==
    \/ \E s \in SocketIds, ip \in Origins : Connect(s, ip)
    \/ \E s \in SocketIds : Join(s, "r1", PlayerOf[s], "")
    \/ \E s \in SocketIds : Disconnect(s)
    \/ Cleanup
    \/ Advance

SpecOrigins == Init /\ [][NextOrigins]_vars

\* Room creation under the cap and the cooldown: the three connected
\* clients join, each the room of its own, the first two r1 and the third
\* r2, while time passes.  No seat is vacated, so a room that was created
\* stays, with its creator as host.
HomeRoom == [s \in SocketIds |-> IF s = "s3" THEN "r2" ELSE "r1"]

NextCooldown ==
    \/ \E s \in SocketIds : Join(s, HomeRoom[s], PlayerOf[s], "")
    \/ Advance

SpecCooldown == InitCap /\ [][NextCooldown]_vars

\* The request limiter: the two players of room r1, both of origin ip1,
\* send moves the rules refuse (so that the game stays as it is), the guest
\* sends settings, both send resets, and time passes.  The limiter's record
\* of the origin starts as earlier requests of the last minute left it.
PastStamps(maxLen) ==
    {q \in UNION {[1..n -> (StartTime - MaxAdvance)..StartTime] : n \in 0..maxLen} :
        \A i \in 1..(Len(q) - 1) : q[i] <= q[i + 1]}

InitLimiter ==
    /\ engineState = createInitialGameState
    /\ rooms = MapSet(EmptyMap, "r1", GameRoom)
    /\ playerRooms = MapSet(MapSet(EmptyMap, "p1", "r1"), "p2", "r1")
    /\ disconnectTimers = EmptyMap
    /\ intervals = EmptyMap
    /\ roomTimers = EmptyMap
    /\ sockets = [s \in SocketIds |->
                     IF s = "s1"
                     THEN [open |-> TRUE, clientIp |-> "ip1", visiblePlayerId |-> "p1",
                           roomId |-> "r1", color |-> "blue"]
                     ELSE IF s = "s2"
                     THEN [open |-> TRUE, clientIp |-> "ip1", visiblePlayerId |-> "p2",
                           roomId |-> "r1", color |-> "red"]
                     ELSE BlankSocket]
    /\ \E moves \in PastStamps(maxMovesPerMinute), events \in PastStamps(maxEventsPerMinute) :
          ipData = MapSet(EmptyMap, "ip1",
                          [connections |-> {"s1", "s2"}, lastRoomCreation |-> 0,
                           moveTimestamps |-> moves, eventTimestamps |-> events])
    /\ now = StartTime
    /\ emitted = <<>>

NextLimiter ==
    \/ \E s \in GameSockets : Move(s, "L2", "CC")
    \/ \E settings \in SettingsRequests : Settings("s2", settings)
    \/ \E s \in GameSockets : Reset(s)
    \/ Advance

SpecLimiter == InitLimiter /\ [][NextLimiter]_vars

\* Moves after leaving: the two players of room r1 send moves and
\* room:leave in any order.
NextStale ==
    \/ \E s \in GameSockets, r \in MoveRequests : Move(s, r.from, r.to)
    \/ \E s \in GameSockets : Leave(s)

SpecStale == InitGame /\ [][NextStale]_vars

\* A room that is destroyed and created again: the host of room r1 turns
\* blitz on, the two players close their connections, the grace periods
\* run out, and the host connects and joins r1 again, while the countdown
\* ticks and time passes.
BlitzOn == [enabledRules |-> {"warning", "forfeit"}, blitzEnabled |-> TRUE, blitzTimeLimit |-> 2]

NextRecreate ==
    \/ Settings("s1", BlitzOn)
    \/ \E s \in GameSockets : Disconnect(s)
    \/ \E key \in DOMAIN disconnectTimers : GraceExpire(key)
    \/ Connect("s1", OriginOf["s1"])
    \/ Join("s1", "r1", PlayerOf["s1"], "")
    \/ \E handle \in DOMAIN intervals : Tick(handle)
    \/ Advance

SpecRecreate == InitGame /\ [][NextRecreate]_vars

\* The player index: the first two clients connect, join either of two
\* room ids, leave, close and connect again, while time passes and grace
\* timers expire.
NextIndex ==
    \/ \E s \in GameSockets : Connect(s, OriginOf[s])
    \/ \E s \in GameSockets, roomId \in TwoRoomIds : Join(s, roomId, PlayerOf[s], "")
    \/ \E s \in GameSockets : Leave(s)
    \/ \E s \in GameSockets : Disconnect(s)
    \/ \E key \in DOMAIN disconnectTimers : GraceExpire(key)
    \/ Advance

SpecIndex == Init /\ [][NextIndex]_vars

\* The repetition checks as library functions: the caller holds the
\* initial placement with Blue to move and any record of up to two moves,
\* up to three snapshots and up to two warnings of Blue, and plays checked
\* moves under any rule set.
RuleSets == SUBSET {"warning", "block", "forfeit"}

RecordedMoves ==
    {[from |-> "L2", to |-> "CL", player |-> "blue"],
     [from |-> "CL", to |-> "L2", player |-> "blue"],
     [from |-> "R2", to |-> "CR", player |-> "red"]}

RecordedSnapshots ==
    {serializeBoardState(createInitialGameState),
     serializeBoardState(makeMove("L2", "CL", createInitialGameState))}

SeqsUpTo(set, maxLen) == UNION {[1..n -> set] : n \in 0..maxLen}

RepetitionInputs ==
    {[createInitialGameState EXCEPT !.moveHistory = mh,
                                    !.boardStateHistory = bh,
                                    !.repetitionWarnings = [blue |-> w, red |-> 0]] :
        mh \in SeqsUpTo(RecordedMoves, 2), bh \in SeqsUpTo(RecordedSnapshots, 3), w \in 0..2}

InitRepetition ==
    /\ engineState \in RepetitionInputs
    /\ rooms = EmptyMap
    /\ playerRooms = EmptyMap
    /\ disconnectTimers = EmptyMap
    /\ intervals = EmptyMap
    /\ roomTimers = EmptyMap
    /\ sockets = [s \in SocketIds |-> BlankSocket]
    /\ ipData = EmptyMap
    /\ now = StartTime
    /\ emitted = <<>>

NextRepetition ==
    \E r \in MoveRequests, enabledRules \in RuleSets :
        EngineCheckedMove(r.from, r.to, enabledRules)

SpecRepetition == InitRepetition /\ [][NextRepetition]_vars

\* Grace periods that run out: the first two clients connect, join room
\* r1, leave and close while a grace period still fits into the time the
\* specification follows, and connect again; time passes and every grace
\* timer that is due fires.
TimerKeys == RoomIds \X PlayerIds

NextGrace ==
    \/ \E s \in GameSockets : Connect(s, OriginOf[s])
    \/ \E s \in GameSockets : Join(s, "r1", PlayerOf[s], "")
    \/ \E s \in GameSockets : Leave(s)
    \/ \E s \in GameSockets :
          /\ now + RECONNECT_GRACE_PERIOD_MS <= StartTime + MaxAdvance
          /\ Disconnect(s)
    \/ \E key \in TimerKeys : GraceExpire(key)
    \/ Advance

SpecGrace ==
    /\ Init
    /\ [][NextGrace]_vars
    /\ WF_vars(Advance)
    /\ WF_vars(\E key \in TimerKeys : GraceExpire(key))

\* The stale-room sweep: the first two clients connect, join room r1 and
\* close, grace timers expire when due or later, and the sweep runs with
\* an age threshold of zero, one or two time units, while time passes.
SweepAges == 0..MaxAdvance

NextSweep ==
    \/ \E s \in GameSockets : Connect(s, OriginOf[s])
    \/ \E s \in GameSockets : Join(s, "r1", PlayerOf[s], "")
    \/ \E s \in GameSockets : Disconnect(s)
    \/ \E key \in TimerKeys : GraceExpire(key)
    \/ \E maxAgeMs \in SweepAges : Sweep(maxAgeMs)
    \/ Advance

SpecSweep == Init /\ [][NextSweep]_vars

\* One player on two connections: both clients connect, join room r1 with
\* the player id p1 and close, while time passes and grace timers expire.
NextTwin ==
    \/ \E s \in GameSockets : Connect(s, OriginOf[s])
    \/ \E s \in GameSockets : Join(s, "r1", "p1", "")
    \/ \E s \in GameSockets : Disconnect(s)
    \/ \E key \in TimerKeys : GraceExpire(key)
    \/ Advance

SpecTwin == Init /\ [][NextTwin]_vars

-----------------------------------------------------------------------------
(* Properties.                                                             *)

\* The game state room r1 holds.
Game == rooms["r1"].gameState

\* The cells of a seat list.
Cells(pieces) == Range(pieces)

\* C1: in every game state a room reaches by manual moves, countdown
\* auto-moves, forfeits and resets, bluePieces and redPieces each hold
\* exactly 3 positions and together cover exactly 6 distinct positions.
SixDistinctPieces ==
    \A roomId \in DOMAIN rooms :
        LET g == rooms[roomId].gameState
        IN /\ Len(g.bluePieces) = 3
           /\ Len(g.redPieces) = 3
           /\ Cardinality(Cells(g.bluePieces) \cup Cells(g.redPieces)) = 6

\* C1 witness: the countdown has just played Blue's second move, and a
\* blue piece and a red piece stand on neighbouring cells of the middle row.
SixDistinctPiecesWitness ==
    /\ "r1" \in DOMAIN rooms
    /\ Len(Game.moveHistory) = 3
    /\ Len(emitted) = 2
    /\ emitted[1].event = "game:timer"
    /\ \E i, j \in 1..3 : Game.bluePieces[i] = "CC" /\ Game.redPieces[j] = "CR"
    /\ SixDistinctPieces

\* Whether makeMove's two checks reject (from, to) in state.
Rejected(from, to, state) ==
    \/ getPieceOwner(from, state) # state.currentPlayer
    \/ ~(/\ Includes(BOARD_GRAPH[from], to)
         /\ to \notin Cells(state.bluePieces) \cup Cells(state.redPieces))

\* C2: makeMove returns its input state unchanged whenever from is not
\* occupied by a piece of the player to move or to is not an unoccupied
\* neighbour of from; a request it does not reject always changes the state.
MakeMoveRejectsByIdentity ==
    \A from \in Positions, to \in Positions :
        IF Rejected(from, to, engineState)
        THEN makeMove(from, to, engineState) = engineState
        ELSE makeMove(from, to, engineState) # engineState

\* C2 witness: after an applied move, a piece of the player who just moved
\* has a free neighbour, and makeMove returns the state unchanged for it.
MakeMoveRejectsByIdentityWitness ==
    /\ Len(engineState.moveHistory) = 1
    /\ \E from \in Positions, to \in Positions :
          /\ getPieceOwner(from, engineState) = Opponent(engineState.currentPlayer)
          /\ Includes(BOARD_GRAPH[from], to)
          /\ ~isPositionOccupied(to, engineState)
          /\ makeMove(from, to, engineState) = engineState

\* Whether player has no piece with a free neighbouring cell.
Stuck(player, state) ==
    LET own == IF player = "blue" THEN Cells(state.bluePieces) ELSE Cells(state.redPieces)
        all == Cells(state.bluePieces) \cup Cells(state.redPieces)
    IN \A p \in own : Cells(BOARD_GRAPH[p]) \subseteq all

\* The status the priority list gives a position.
StatusByPriority(state) ==
    IF Cells(state.bluePieces) \subseteq {"R1", "R2", "R3"} THEN "blue_wins"
    ELSE IF Cells(state.redPieces) \subseteq {"L1", "L2", "L3"} THEN "red_wins"
    ELSE IF Stuck(state.currentPlayer, state)
    THEN (IF state.currentPlayer = "blue" THEN "red_wins" ELSE "blue_wins")
    ELSE "playing"

\* C3: after every applied move the stored status is blue_wins if all Blue
\* pieces are on R1..R3, else red_wins if all Red pieces are on L1..L3, else
\* a win for the opponent of a player to move who has no legal move, else
\* playing.
StatusFollowsPriority ==
    Len(engineState.moveHistory) > 0 =>
        engineState.status = StatusByPriority(engineState)

\* C3 witness: a move after which all Blue pieces are on R1..R3 and Blue,
\* to move, is stuck; the status is the completion win.
StatusFollowsPriorityWitness ==
    /\ Len(engineState.moveHistory) = 1
    /\ engineState.currentPlayer = "blue"
    /\ Cells(engineState.bluePieces) = {"R1", "R2", "R3"}
    /\ Stuck("blue", engineState)
    /\ engineState.status = "blue_wins"


\* Whether socket s is bound to a seat of room roomId.
Bound(s, roomId) ==
    /\ sockets[s].open
    /\ sockets[s].roomId = roomId
    /\ sockets[s].color # ""
    /\ sockets[s].visiblePlayerId # ""

\* Whether the move limiter admits one more game:move from the origin of
\* socket s: fewer than maxMovesPerMinute of its requests lie inside the
\* last minute.
Admitted(s) ==
    LET ip == sockets[s].clientIp
    IN \/ ip = ""
       \/ ip \notin DOMAIN ipData
       \/ Cardinality({i \in DOMAIN ipData[ip].moveTimestamps :
                          ipData[ip].moveTimestamps[i] > now - ONE_MINUTE})
             < maxMovesPerMinute

\* Whether roomId has no countdown: no handle is registered for it and no
\* live interval belongs to it.
NoCountdown(roomId, tm) ==
    /\ roomId \notin DOMAIN tm.roomTimers
    /\ \A h \in DOMAIN tm.intervals : tm.intervals[h].roomId # roomId

\* Whether roomId has exactly one countdown, registered, with the full time.
FreshCountdown(roomId, tm, limit) ==
    /\ roomId \in DOMAIN tm.roomTimers
    /\ \A h \in DOMAIN tm.intervals :
          tm.intervals[h].roomId = roomId =>
              h = tm.roomTimers[roomId] /\ tm.intervals[h].timeLeft = limit
    /\ tm.roomTimers[roomId] \in DOMAIN tm.intervals

\* The timer state after the step.
timersNext == [intervals |-> intervals', roomTimers |-> roomTimers']

\* C4: once the game status of a room is not playing, the room's game
\* state stays as it is under every later move request, each request the
\* move limiter admits being rejected with GAME_OVER, and under every
\* countdown tick (no countdown of the room is live); only a reset by the
\* host changes it.
TerminalGameFrozen ==
    [][\A roomId \in DOMAIN rooms :
          rooms[roomId].gameState.status # "playing" =>
              /\ NoCountdown(roomId, timers)
              /\ \A s \in SocketIds, r \in MoveRequests :
                    (Bound(s, roomId) /\ Move(s, r.from, r.to)) =>
                        /\ rooms' = rooms
                        /\ Admitted(s) => emitted' = <<Err("GAME_OVER")>>
              /\ \A h \in DOMAIN intervals : Tick(h) => rooms' = rooms
              /\ (/\ roomId \in DOMAIN rooms'
                  /\ rooms'[roomId].gameState # rooms[roomId].gameState) =>
                     /\ rooms'[roomId].gameState = createInitialGameState
                     /\ \E s \in SocketIds :
                           /\ Reset(s)
                           /\ sockets[s].visiblePlayerId = rooms[roomId].hostId]_vars

\* C4 witness: in a game that has ended by a win, a move request has just
\* been rejected with GAME_OVER.
TerminalGameFrozenWitness ==
    /\ "r1" \in DOMAIN rooms
    /\ Game.status \in {"blue_wins", "red_wins"}
    /\ emitted = <<Err("GAME_OVER")>>

\* Whether the recorded moves alternate blue, red, blue, ...
Alternates(moveHistory) ==
    \A i \in DOMAIN moveHistory :
        moveHistory[i].player = (IF i % 2 = 1 THEN "blue" ELSE "red")

\* C5: every applied move, manual or by the countdown, is made by the
\* colour to move, so the recorded moves alternate blue, red, blue, ...
\* after each reset; a step applies at most one move; a request of the
\* colour not to move in a running game is rejected with NOT_YOUR_TURN and
\* changes nothing; and after an applied move the room has either no
\* countdown or one countdown with the full time.
TurnsAlternate ==
    [][\A roomId \in DOMAIN rooms \cap DOMAIN rooms' :
          LET g == rooms[roomId].gameState
              gNext == rooms'[roomId].gameState
              applied == gNext.moveHistory # g.moveHistory /\ gNext.moveHistory # <<>>
          IN /\ Alternates(gNext.moveHistory)
             /\ gNext.currentPlayer = (IF Len(gNext.moveHistory) % 2 = 0 THEN "blue" ELSE "red")
             /\ applied =>
                   /\ g.status = "playing"
                   /\ Len(gNext.moveHistory) = Len(g.moveHistory) + 1
                   /\ SubSeq(gNext.moveHistory, 1, Len(g.moveHistory)) = g.moveHistory
                   /\ gNext.moveHistory[Len(gNext.moveHistory)].player = g.currentPlayer
                   /\ \/ NoCountdown(roomId, timersNext)
                      \/ FreshCountdown(roomId, timersNext,
                                        rooms'[roomId].settings.blitzTimeLimit)
             /\ \A s \in SocketIds, r \in MoveRequests :
                   /\ (applied /\ Bound(s, roomId) /\ Move(s, r.from, r.to)) =>
                          sockets[s].color = g.currentPlayer
                   /\ (/\ Bound(s, roomId)
                       /\ Admitted(s)
                       /\ g.status = "playing"
                       /\ sockets[s].color # g.currentPlayer
                       /\ Move(s, r.from, r.to)) =>
                          /\ emitted' = <<Err("NOT_YOUR_TURN")>>
                          /\ rooms' = rooms
                          /\ timersNext = timers]_vars

\* C5 witness: with the countdown running for Blue after Red's manual
\* move, a further request of Red has just been rejected with NOT_YOUR_TURN.
TurnsAlternateWitness ==
    /\ "r1" \in DOMAIN rooms
    /\ Len(Game.moveHistory) = 2
    /\ Game.currentPlayer = "blue"
    /\ FreshCountdown("r1", timers, rooms["r1"].settings.blitzTimeLimit)
    /\ emitted = <<Err("NOT_YOUR_TURN")>>


\* The pieces of a colour.
Own(color, g) == IF color = "blue" THEN g.bluePieces ELSE g.redPieces

\* Whether a request passes the handler's four checks on the game: the
\* game is running, it is the requester's turn, from holds a piece of the
\* requester and to is a free neighbour of from.
Legal(from, to, g, color) ==
    /\ g.status = "playing"
    /\ g.currentPlayer = color
    /\ from \in Cells(Own(color, g))
    /\ Includes(BOARD_GRAPH[from], to)
    /\ to \notin Cells(g.bluePieces) \cup Cells(g.redPieces)

\* Whether gNext is g with the move (from, to) of color applied: the piece
\* moved, the turn passed, the move and the snapshot recorded.
Applied(from, to, g, gNext, color) ==
    /\ Cells(Own(color, gNext)) = (Cells(Own(color, g)) \ {from}) \cup {to}
    /\ Own(Opponent(color), gNext) = Own(Opponent(color), g)
    /\ gNext.currentPlayer = Opponent(color)
    /\ gNext.moveHistory =
          Append(g.moveHistory, [from |-> from, to |-> to, player |-> color])
    /\ Len(gNext.boardStateHistory) = Len(g.boardStateHistory) + 1

\* C6: a move request that passed the legality checks has exactly one
\* outcome, in this precedence: with shouldForfeit the status becomes the
\* mover's forfeit and pieces, turn and histories stay; else with
\* shouldBlock it is rejected with MOVE_BLOCKED and the game state stays;
\* else with shouldWarn the move is applied and the mover's warning counter
\* grows by 1; else the move is applied and both counters stay.
RepetitionOutcomePrecedence ==
    [][\A s \in SocketIds, r \in MoveRequests :
          (/\ sockets[s].roomId \in DOMAIN rooms
           /\ Bound(s, sockets[s].roomId)
           /\ Admitted(s)
           /\ Legal(r.from, r.to, rooms[sockets[s].roomId].gameState, sockets[s].color)
           /\ Move(s, r.from, r.to)) =>
              LET roomId == sockets[s].roomId
                  mover == sockets[s].color
                  g == rooms[roomId].gameState
                  gNext == rooms'[roomId].gameState
                  check == checkRepetition(r.from, r.to, g,
                                           rooms[roomId].settings.enabledRules)
              IN IF check.shouldForfeit
                 THEN gNext = [g EXCEPT !.status =
                                  IF mover = "blue" THEN "blue_forfeit" ELSE "red_forfeit"]
                 ELSE IF check.shouldBlock
                 THEN gNext = g /\ emitted' = <<Err("MOVE_BLOCKED")>>
                 ELSE IF check.shouldWarn
                 THEN /\ Applied(r.from, r.to, g, gNext, mover)
                      /\ gNext.repetitionWarnings[mover] = g.repetitionWarnings[mover] + 1
                      /\ gNext.repetitionWarnings[Opponent(mover)] =
                            g.repetitionWarnings[Opponent(mover)]
                 ELSE /\ Applied(r.from, r.to, g, gNext, mover)
                      /\ gNext.repetitionWarnings = g.repetitionWarnings]_vars

\* C6 witness: with block and forfeit both enabled, Blue's request has just
\* ended the game by Blue's forfeit.
RepetitionOutcomePrecedenceWitness ==
    /\ "r1" \in DOMAIN rooms
    /\ {"block", "forfeit"} \subseteq rooms["r1"].settings.enabledRules
    /\ Game.status = "blue_forfeit"
    /\ Game.repetitionWarnings["blue"] = 2
    /\ emitted = <<Ev("game:state", "")>>

\* The moves of a player among the recorded moves, in order.
MovesOf(player, moveHistory) == SelectSeq(moveHistory, LAMBDA m : m.player = player)

\* The number of recorded moves of a player that bounced: took back the
\* player's move before.
Bounces(player, moveHistory) ==
    LET own == MovesOf(player, moveHistory)
    IN Cardinality({i \in 2..Len(own) :
                      own[i - 1].from = own[i].to /\ own[i - 1].to = own[i].from})

\* C7: in a room whose enabled rules include forfeit, a request of a player
\* that is a repetition event, made after two earlier repetition events of
\* that player in the game, ends the game with that player's forfeit.
ThirdRepetitionForfeits ==
    [][\A s \in SocketIds, r \in MoveRequests :
          (/\ sockets[s].roomId \in DOMAIN rooms
           /\ Bound(s, sockets[s].roomId)
           /\ Admitted(s)
           /\ "forfeit" \in rooms[sockets[s].roomId].settings.enabledRules
           /\ Legal(r.from, r.to, rooms[sockets[s].roomId].gameState, sockets[s].color)
           /\ Bounces(sockets[s].color, rooms[sockets[s].roomId].gameState.moveHistory) >= 2
           /\ detectPieceBounce(
                 Append(rooms[sockets[s].roomId].gameState.moveHistory,
                        [from |-> r.from, to |-> r.to, player |-> sockets[s].color]),
                 sockets[s].color)
           /\ Move(s, r.from, r.to)) =>
              rooms'[sockets[s].roomId].gameState.status =
                  (IF sockets[s].color = "blue" THEN "blue_forfeit" ELSE "red_forfeit")]_vars


\* Whether seat p is disconnected and its grace period has not elapsed.
InGrace(p) ==
    /\ ~p.connected
    /\ p.disconnectedAt # 0
    /\ now - p.disconnectedAt < RECONNECT_GRACE_PERIOD_MS

\* Whether the occupant of seat p holds it: connected or inside the grace
\* period.
Holds(p) == p.connected \/ InGrace(p)

\* The seat number of playerId in room r1, 0 if it has none.
SeatOf(playerId) ==
    IF "r1" \in DOMAIN rooms
    THEN FindIndex(rooms["r1"].players, LAMBDA p : p.id = playerId)
    ELSE 0

\* A connected seat of playerId with the given colour.
NewSeat(playerId, color) ==
    [id |-> playerId, color |-> color, connected |-> TRUE, disconnectedAt |-> 0]

\* Whether the creation limiter admits a room creation from the origin of
\* socket s: the origin's last creation lies a cooldown or more back.
CreationAdmitted(s) ==
    LET ip == sockets[s].clientIp
    IN \/ ip = ""
       \/ ip \notin DOMAIN ipData
       \/ ipData[ip].lastRoomCreation = 0
       \/ now - ipData[ip].lastRoomCreation >= roomCreationCooldownMs

\* C8: a join the creation limiter admits to a room id that does not exist
\* creates the room with the joiner as its only seat, Blue, and as host,
\* with the default settings and the initial game state; a join by a
\* different player to a room whose only seat is Blue and held (connected
\* or in grace) adds the joiner as Red and leaves host, game and settings
\* as they are; a join by a third player while both seats are held is
\* answered with ROOM_FULL and changes no room, no seat index and no
\* grace timer, and does not bind the socket.
RoomFillsBlueRedFull ==
    [][\A s \in SocketIds :
          Join(s, "r1", PlayerOf[s], "") =>
              /\ ("r1" \notin DOMAIN rooms /\ CreationAdmitted(s)) =>
                    /\ "r1" \in DOMAIN rooms'
                    /\ rooms'["r1"] = [id |-> "r1",
                                       hostId |-> PlayerOf[s],
                                       password |-> "",
                                       players |-> <<NewSeat(PlayerOf[s], "blue")>>,
                                       gameState |-> createInitialGameState,
                                       settings |-> createDefaultSettings,
                                       createdAt |-> now]
                    /\ sockets'[s].color = "blue"
                    /\ sockets'[s].roomId = "r1"
              /\ (/\ "r1" \in DOMAIN rooms
                  /\ Len(rooms["r1"].players) = 1
                  /\ rooms["r1"].players[1].id # PlayerOf[s]
                  /\ rooms["r1"].players[1].color = "blue"
                  /\ Holds(rooms["r1"].players[1])) =>
                    /\ rooms' = [rooms EXCEPT !["r1"].players =
                                    Append(@, NewSeat(PlayerOf[s], "red"))]
                    /\ sockets'[s].color = "red"
                    /\ sockets'[s].roomId = "r1"
              /\ (/\ "r1" \in DOMAIN rooms
                  /\ Len(rooms["r1"].players) = 2
                  /\ SeatOf(PlayerOf[s]) = 0
                  /\ Holds(rooms["r1"].players[1])
                  /\ Holds(rooms["r1"].players[2])) =>
                    /\ emitted' = <<Err("ROOM_FULL")>>
                    /\ rooms' = rooms
                    /\ playerRooms' = playerRooms
                    /\ disconnectTimers' = disconnectTimers
                    /\ sockets'[s].roomId = sockets[s].roomId
                    /\ sockets'[s].color = sockets[s].color]_vars

\* C8 witness: room r1 holds the creator as Blue host and a second player
\* as Red, one of them disconnected and in grace, and a third player's join
\* has just been answered with ROOM_FULL.
RoomFillsBlueRedFullWitness ==
    /\ "r1" \in DOMAIN rooms
    /\ Len(rooms["r1"].players) = 2
    /\ rooms["r1"].players[1].color = "blue"
    /\ rooms["r1"].players[1].id = rooms["r1"].hostId
    /\ rooms["r1"].players[2].color = "red"
    /\ \E i \in 1..2 : InGrace(rooms["r1"].players[i])
    /\ \A i \in 1..2 : Holds(rooms["r1"].players[i])
    /\ emitted = <<Err("ROOM_FULL")>>

\* C9: a join by a player whose seat in the room is disconnected and in
\* grace leaves the seat where it is with its colour, marks it connected,
\* leaves the host and everything else of the room as it is, removes the
\* pending grace timer of the seat and binds the socket to the seat's
\* colour; no step taken while the host's seat is held changes the host;
\* and after every step each pending grace timer belongs to a seat that
\* is disconnected, so no timer vacates a seat that has rejoined.
RejoinInGraceRestoresSeat ==
    [][/\ \A s \in SocketIds :
             (/\ SeatOf(PlayerOf[s]) # 0
              /\ InGrace(rooms["r1"].players[SeatOf(PlayerOf[s])])
              /\ Join(s, "r1", PlayerOf[s], "")) =>
                 /\ rooms' = [rooms EXCEPT
                                 !["r1"].players[SeatOf(PlayerOf[s])].connected = TRUE,
                                 !["r1"].players[SeatOf(PlayerOf[s])].disconnectedAt = 0]
                 /\ <<"r1", PlayerOf[s]>> \in DOMAIN disconnectTimers
                 /\ <<"r1", PlayerOf[s]>> \notin DOMAIN disconnectTimers'
                 /\ playerRooms'[PlayerOf[s]] = "r1"
                 /\ sockets'[s].roomId = "r1"
                 /\ sockets'[s].color = rooms["r1"].players[SeatOf(PlayerOf[s])].color
                 /\ emitted' =
                       <<Ev("room:joined", rooms["r1"].players[SeatOf(PlayerOf[s])].color),
                         Ev("room:player_reconnected",
                            rooms["r1"].players[SeatOf(PlayerOf[s])].color)>>
       /\ ("r1" \in DOMAIN rooms /\ SeatOf(rooms["r1"].hostId) # 0
             /\ Holds(rooms["r1"].players[SeatOf(rooms["r1"].hostId)])) =>
                 /\ "r1" \in DOMAIN rooms'
                 /\ rooms'["r1"].hostId = rooms["r1"].hostId
       /\ \A key \in DOMAIN disconnectTimers' :
             /\ key[1] \in DOMAIN rooms'
             /\ \E i \in DOMAIN rooms'[key[1]].players :
                   /\ rooms'[key[1]].players[i].id = key[2]
                   /\ ~rooms'[key[1]].players[i].connected]_vars

\* C9 witness: the host has closed its connection and opened a new one
\* while its Blue seat is in grace with the grace timer pending, and its
\* join is a reconnect to the Blue seat that leaves it host.
RejoinInGraceRestoresSeatWitness ==
    /\ "r1" \in DOMAIN rooms
    /\ rooms["r1"].hostId = "p1"
    /\ SeatOf("p1") # 0
    /\ InGrace(rooms["r1"].players[SeatOf("p1")])
    /\ rooms["r1"].players[SeatOf("p1")].color = "blue"
    /\ <<"r1", "p1">> \in DOMAIN disconnectTimers
    /\ Len(rooms["r1"].players) = 2
    /\ sockets["s1"].open
    /\ sockets["s1"].roomId = ""
    /\ createOrJoinRoom(manager, "r1", "p1", "", now).result = JoinSuccess("blue", TRUE)
    /\ createOrJoinRoom(manager, "r1", "p1", "", now).m.rooms["r1"].hostId = "p1"

\* The seats of room r1 whose occupant no longer holds them.
ExpiredSeats == {i \in DOMAIN rooms["r1"].players : ~Holds(rooms["r1"].players[i])}

\* The first of a nonempty set of seat numbers.
FirstSeat(S) == CHOOSE i \in S : \A j \in S : i <= j

\* C10: a join to the room by a player that has no seat in it, made while
\* some seat's occupant is disconnected with the grace period elapsed and
\* the grace timer not yet run, hands the first such seat with its colour
\* to the joiner, removes the old occupant's pending grace timer and its
\* room membership; made after the timer has run and one held seat is
\* left, it adds a seat of the colour the held seat does not have; and no
\* join changes a seat that another player holds, so the old occupant does
\* not get the seat back while the new one holds it.
ExpiredSeatRepossessed ==
    [][\A s \in SocketIds :
          ("r1" \in DOMAIN rooms /\ Join(s, "r1", PlayerOf[s], "")) =>
              /\ (SeatOf(PlayerOf[s]) = 0 /\ ExpiredSeats # {}) =>
                    /\ rooms' = [rooms EXCEPT !["r1"].players[FirstSeat(ExpiredSeats)] =
                                    NewSeat(PlayerOf[s], @.color)]
                    /\ sockets'[s].color =
                          rooms["r1"].players[FirstSeat(ExpiredSeats)].color
                    /\ <<"r1", rooms["r1"].players[FirstSeat(ExpiredSeats)].id>>
                          \notin DOMAIN disconnectTimers'
                    /\ rooms["r1"].players[FirstSeat(ExpiredSeats)].id
                          \notin DOMAIN playerRooms'
                    /\ playerRooms'[PlayerOf[s]] = "r1"
              /\ (/\ SeatOf(PlayerOf[s]) = 0
                  /\ Len(rooms["r1"].players) = 1
                  /\ Holds(rooms["r1"].players[1])) =>
                    /\ rooms' = [rooms EXCEPT !["r1"].players =
                                    Append(@, NewSeat(PlayerOf[s],
                                                      Opponent(rooms["r1"].players[1].color)))]
                    /\ sockets'[s].color = Opponent(rooms["r1"].players[1].color)
              /\ \A i \in DOMAIN rooms["r1"].players :
                    (Holds(rooms["r1"].players[i])
                       /\ rooms["r1"].players[i].id # PlayerOf[s]) =>
                          /\ "r1" \in DOMAIN rooms'
                          /\ rooms'["r1"].players[i] = rooms["r1"].players[i]]_vars

\* C10 witness: the creator's Blue seat has been handed to p3 while the
\* room still names the creator p1 as host and p2 sits on Red: the last
\* handler was the join that gave p3 the Blue seat, and p1 has no seat and
\* no room membership left.
ExpiredSeatRepossessedWitness ==
    /\ "r1" \in DOMAIN rooms
    /\ rooms["r1"].hostId = "p1"
    /\ Len(rooms["r1"].players) = 2
    /\ rooms["r1"].players[1] = NewSeat("p3", "blue")
    /\ rooms["r1"].players[2].id = "p2"
    /\ "p1" \notin DOMAIN playerRooms
    /\ <<"r1", "p1">> \notin DOMAIN disconnectTimers
    /\ sockets["s3"].color = "blue"
    /\ emitted = <<Ev("room:joined", "blue"), Ev("room:player_joined", "blue")>>


\* C11: a join to a room that has a password, made with another password
\* or none, by a new player, by a player whose seat is disconnected or by
\* a player that could take over an expired seat, changes no room, no room
\* membership and no grace timer and does not bind the socket; it is
\* answered with room:password_required when it carries no password and
\* with WRONG_PASSWORD otherwise.
PasswordGuardsEverySeat ==
    [][\A s \in SocketIds, password \in Passwords :
          (/\ "r1" \in DOMAIN rooms
           /\ rooms["r1"].password # ""
           /\ password # rooms["r1"].password
           /\ Join(s, "r1", PlayerOf[s], password)) =>
              /\ rooms' = rooms
              /\ playerRooms' = playerRooms
              /\ disconnectTimers' = disconnectTimers
              /\ sockets'[s].roomId = sockets[s].roomId
              /\ sockets'[s].color = sockets[s].color
              /\ emitted' = (IF password = ""
                             THEN <<Ev("room:password_required", "")>>
                             ELSE <<Err("WRONG_PASSWORD")>>)]_vars

\* C11 witness: a join with a wrong password has just been answered with
\* WRONG_PASSWORD by a room that has a password, both of its seats held and
\* one of them disconnected and in grace.
PasswordGuardsEverySeatWitness ==
    /\ "r1" \in DOMAIN rooms
    /\ rooms["r1"].password = "pw"
    /\ Len(rooms["r1"].players) = 2
    /\ \A i \in 1..2 : Holds(rooms["r1"].players[i])
    /\ \E i \in 1..2 : InGrace(rooms["r1"].players[i])
    /\ emitted = <<Err("WRONG_PASSWORD")>>


\* Whether the event limiter admits one more game:settings or game:reset
\* from the origin of socket s: fewer than maxEventsPerMinute of its
\* requests lie inside the last minute.
EventAdmitted(s) ==
    LET ip == sockets[s].clientIp
    IN \/ ip = ""
       \/ ip \notin DOMAIN ipData
       \/ Cardinality({i \in DOMAIN ipData[ip].eventTimestamps :
                          ipData[ip].eventTimestamps[i] > now - ONE_MINUTE})
             < maxEventsPerMinute

\* Whether socket s carries the player id of the host of the room it is
\* bound to.
IsHost(s) ==
    /\ sockets[s].roomId \in DOMAIN rooms
    /\ sockets[s].visiblePlayerId = rooms[sockets[s].roomId].hostId

\* C12: a game:settings or game:reset request of a socket bound to a room
\* whose host is another player changes no room and no countdown, and each
\* such request the event limiter admits is answered with NOT_HOST; the
\* settings of a room change only by a game:settings request of its host,
\* and a game:reset request is answered with a game state only to the host.
OnlyHostConfigures ==
    [][/\ \A s \in SocketIds :
             (/\ Bound(s, sockets[s].roomId)
              /\ sockets[s].roomId \in DOMAIN rooms
              /\ ~IsHost(s)
              /\ \/ Reset(s)
                 \/ \E settings \in SettingsRequests : Settings(s, settings)) =>
                 /\ rooms' = rooms
                 /\ intervals' = intervals
                 /\ roomTimers' = roomTimers
                 /\ EventAdmitted(s) => emitted' = <<Err("NOT_HOST")>>
       /\ \A roomId \in DOMAIN rooms :
             (roomId \in DOMAIN rooms'
                /\ rooms'[roomId].settings # rooms[roomId].settings) =>
                   \E s \in SocketIds, settings \in SettingsRequests :
                      /\ Settings(s, settings)
                      /\ sockets[s].roomId = roomId
                      /\ IsHost(s)
       /\ \A s \in SocketIds :
             (Reset(s) /\ emitted'[1].event = "game:state") => IsHost(s)]_vars

\* C12 witness: while a countdown of the room is live, a request of the
\* player that is not host has just been answered with NOT_HOST.
OnlyHostConfiguresWitness ==
    /\ "r1" \in DOMAIN rooms
    /\ rooms["r1"].hostId = "p1"
    /\ rooms["r1"].settings.blitzEnabled
    /\ "r1" \in DOMAIN roomTimers
    /\ Len(Game.moveHistory) > 0
    /\ emitted = <<Err("NOT_HOST")>>

\* C13: a game:reset request of the host that the event limiter admits
\* sets the game state of the room to Blue on L1, L2, L3, Red on R1, R2,
\* R3, Blue to move, status playing, no selected piece, empty histories and
\* both warning counters 0, and leaves everything else of the room
\* (settings, seats, host, password) as it is.
HostResetRestoresInitialGame ==
    [][\A s \in SocketIds :
          (/\ Bound(s, sockets[s].roomId)
           /\ IsHost(s)
           /\ EventAdmitted(s)
           /\ Reset(s)) =>
              /\ rooms'[sockets[s].roomId].gameState =
                    [currentPlayer |-> "blue",
                     bluePieces |-> <<"L1", "L2", "L3">>,
                     redPieces |-> <<"R1", "R2", "R3">>,
                     selectedPiece |-> "",
                     status |-> "playing",
                     moveHistory |-> <<>>,
                     boardStateHistory |-> <<>>,
                     repetitionWarnings |-> [blue |-> 0, red |-> 0]]
              /\ rooms' = [rooms EXCEPT ![sockets[s].roomId].gameState =
                              rooms'[sockets[s].roomId].gameState]
              /\ emitted'[1].event = "game:state"]_vars

\* C13 witness: after moves were made and the host changed the settings,
\* a reset has just put the game back to the initial state.
HostResetRestoresInitialGameWitness ==
    /\ "r1" \in DOMAIN rooms
    /\ Game = createInitialGameState
    /\ rooms["r1"].settings # createDefaultSettings
    /\ Len(ipData["ip1"].moveTimestamps) > 0
    /\ Len(rooms["r1"].players) = 2
    /\ emitted # <<>>
    /\ emitted[1].event = "game:state"


\* The rooms left when playerId has left the room it sits in to join
\* roomId: a room in which playerId held the only seat is gone.
RoomsWithout(playerId, roomId) ==
    {r \in DOMAIN rooms :
        ~(/\ r # roomId
          /\ playerId \in DOMAIN playerRooms
          /\ playerRooms[playerId] = r
          /\ Len(rooms[r].players) = 1
          /\ rooms[r].players[1].id = playerId)}

\* C14: after every step at most maxRooms rooms exist; a join to a room
\* id that does not exist, made while maxRooms rooms exist apart from a
\* room the joiner alone sits in, creates no room, and each such join the
\* creation limiter admits is answered with MAX_ROOMS_REACHED; a join to
\* an existing room with a single seat, held by another player, is
\* accepted while maxRooms rooms exist.
RoomCountCapped ==
    [][/\ Cardinality(DOMAIN rooms') <= maxRooms
       /\ \A s \in SocketIds, roomId \in TwoRoomIds :
             Join(s, roomId, PlayerOf[s], "") =>
                /\ (/\ roomId \notin DOMAIN rooms
                    /\ Cardinality(RoomsWithout(PlayerOf[s], roomId)) = maxRooms) =>
                      /\ DOMAIN rooms' = RoomsWithout(PlayerOf[s], roomId)
                      /\ PlayerOf[s] \notin DOMAIN playerRooms'
                      /\ sockets'[s].roomId = sockets[s].roomId
                      /\ CreationAdmitted(s) =>
                            emitted'[Len(emitted')] = Err("MAX_ROOMS_REACHED")
                /\ (/\ roomId \in DOMAIN rooms
                    /\ Cardinality(DOMAIN rooms) = maxRooms
                    /\ Len(rooms[roomId].players) = 1
                    /\ rooms[roomId].players[1].id # PlayerOf[s]
                    /\ Holds(rooms[roomId].players[1])) =>
                      /\ rooms'[roomId].players =
                            Append(rooms[roomId].players,
                                   NewSeat(PlayerOf[s],
                                           Opponent(rooms[roomId].players[1].color)))
                      /\ playerRooms'[PlayerOf[s]] = roomId
                      /\ sockets'[s].roomId = roomId
                      /\ emitted'[Len(emitted')].event = "room:player_joined"]_vars

\* C14 witness: one room exists, which is the maximum, with two seats, and
\* a join of the third player to the other room id has just been answered
\* with MAX_ROOMS_REACHED.
RoomCountCappedWitness ==
    /\ Cardinality(DOMAIN rooms) = maxRooms
    /\ \E roomId \in DOMAIN rooms : Len(rooms[roomId].players) = 2
    /\ "p3" \notin DOMAIN playerRooms
    /\ emitted = <<Err("MAX_ROOMS_REACHED")>>


\* The live countdowns of roomId.
CountdownsOf(roomId) == {h \in DOMAIN intervals : intervals[h].roomId = roomId}

\* C15: every room has at most one live countdown, and every live
\* countdown is the one registered for its room, so a countdown that is
\* started replaces the one the room had.
OneCountdownPerRoom ==
    /\ \A roomId \in RoomIds : Cardinality(CountdownsOf(roomId)) <= 1
    /\ \A h \in DOMAIN intervals :
          /\ intervals[h].roomId \in DOMAIN roomTimers
          /\ roomTimers[intervals[h].roomId] = h
    /\ \A roomId \in DOMAIN roomTimers : roomTimers[roomId] \in DOMAIN intervals

\* C15 witness: in a game under way a join has just restarted the
\* countdown of the room, which is the only one and has the full time.
OneCountdownPerRoomWitness ==
    /\ "r1" \in DOMAIN rooms
    /\ Len(Game.moveHistory) > 0
    /\ emitted # <<>>
    /\ emitted[1].event = "room:joined"
    /\ Cardinality(CountdownsOf("r1")) = 1
    /\ FreshCountdown("r1", timers, rooms["r1"].settings.blitzTimeLimit)


\* C16: a tick of the countdown of a playing room broadcasts the time
\* left lowered by one; while time is left it changes nothing but the
\* countdown's time; when no time is left it applies one move among the
\* legal moves of the player to move and broadcasts the new game state
\* with the configured limit, after which the room has a single countdown
\* with the full limit if the game is still playing and blitz is enabled,
\* and no countdown otherwise.
CountdownTicksThenMoves ==
    [][\A h \in DOMAIN intervals :
          (/\ intervals[h].roomId \in DOMAIN rooms
           /\ rooms[intervals[h].roomId].gameState.status = "playing"
           /\ Tick(h)) =>
              /\ emitted'[1] = EvTime("game:timer", intervals[h].timeLeft - 1)
              /\ intervals[h].timeLeft > 1 =>
                    /\ emitted' = <<EvTime("game:timer", intervals[h].timeLeft - 1)>>
                    /\ rooms' = rooms
                    /\ roomTimers' = roomTimers
                    /\ intervals' = [intervals EXCEPT ![h].timeLeft = @ - 1]
              /\ intervals[h].timeLeft = 1 =>
                    /\ \E from \in Positions, to \in Positions :
                          /\ Legal(from, to, rooms[intervals[h].roomId].gameState,
                                   rooms[intervals[h].roomId].gameState.currentPlayer)
                          /\ Applied(from, to, rooms[intervals[h].roomId].gameState,
                                     rooms'[intervals[h].roomId].gameState,
                                     rooms[intervals[h].roomId].gameState.currentPlayer)
                    /\ rooms' = [rooms EXCEPT ![intervals[h].roomId].gameState =
                                    rooms'[intervals[h].roomId].gameState]
                    /\ emitted' =
                          <<EvTime("game:timer", 0),
                            EvTime("game:state",
                                   rooms[intervals[h].roomId].settings.blitzTimeLimit)>>
                    /\ IF /\ rooms'[intervals[h].roomId].gameState.status = "playing"
                          /\ rooms[intervals[h].roomId].settings.blitzEnabled
                       THEN FreshCountdown(intervals[h].roomId, timersNext,
                                           rooms[intervals[h].roomId].settings.blitzTimeLimit)
                       ELSE NoCountdown(intervals[h].roomId, timersNext)]_vars

\* C16 witness: the countdown has just run out, a move of Blue was applied
\* and broadcast, and the countdown runs again with the full limit.
CountdownTicksThenMovesWitness ==
    /\ "r1" \in DOMAIN rooms
    /\ rooms["r1"].settings.blitzEnabled
    /\ Len(Game.moveHistory) = 1
    /\ Game.currentPlayer = "red"
    /\ emitted = <<EvTime("game:timer", 0),
                   EvTime("game:state", rooms["r1"].settings.blitzTimeLimit)>>
    /\ FreshCountdown("r1", timers, rooms["r1"].settings.blitzTimeLimit)

\* A countdown has just run out with a move that ended the game, and no
\* countdown remains.
CountdownEndsGame ==
    /\ "r1" \in DOMAIN rooms
    /\ Game.status \in {"blue_wins", "red_wins"}
    /\ emitted = <<EvTime("game:timer", 0),
                   EvTime("game:state", rooms["r1"].settings.blitzTimeLimit)>>
    /\ NoCountdown("r1", timers)


\* Whether the player id of socket s has a seat in the room the player
\* index names.
Seated(s) ==
    /\ sockets[s].open
    /\ sockets[s].visiblePlayerId \in DOMAIN playerRooms
    /\ playerRooms[sockets[s].visiblePlayerId] \in DOMAIN rooms
    /\ \E i \in DOMAIN rooms[playerRooms[sockets[s].visiblePlayerId]].players :
          rooms[playerRooms[sockets[s].visiblePlayerId]].players[i].id =
             sockets[s].visiblePlayerId

\* The seats of a room without the seat of playerId.
OtherSeats(players, playerId) == SelectSeq(players, LAMBDA p : p.id # playerId)

\* C17: a room:leave of a seated player removes the seat in the same
\* step, with its room membership and any grace timer of the seat; the
\* room is gone if that was its only seat, and otherwise keeps everything
\* but the seat, with the first connected of the remaining seats as host
\* if the leaver was host and such a seat exists.  A close of the
\* connection of a seated player keeps the seat with its colour, marks it
\* disconnected at the current time, leaves the host as it is and arms a
\* grace timer due a grace period later.  No step removes a seat that is
\* in grace or changes its colour or the host role it has, except the
\* seat's own player leaving.
LeaveVacatesCloseKeeps ==
    [][/\ \A s \in GameSockets :
             (Seated(s) /\ Leave(s)) =>
                LET q == sockets[s].visiblePlayerId
                    r == playerRooms[q]
                    rest == OtherSeats(rooms[r].players, q)
                IN /\ q \notin DOMAIN playerRooms'
                   /\ <<r, q>> \notin DOMAIN disconnectTimers'
                   /\ IF rest = <<>>
                      THEN r \notin DOMAIN rooms'
                      ELSE /\ r \in DOMAIN rooms'
                           /\ rooms'[r] =
                                 [rooms[r] EXCEPT
                                     !.players = rest,
                                     !.hostId =
                                        IF rooms[r].hostId = q /\ rest[1].connected
                                        THEN rest[1].id ELSE @]
       /\ \A s \in GameSockets :
             (Seated(s) /\ Disconnect(s)) =>
                LET q == sockets[s].visiblePlayerId
                    r == playerRooms[q]
                    i == SeatOf(q)
                IN /\ rooms' = [rooms EXCEPT ![r].players[i].connected = FALSE,
                                             ![r].players[i].disconnectedAt = now]
                   /\ playerRooms' = playerRooms
                   /\ <<r, q>> \in DOMAIN disconnectTimers'
                   /\ disconnectTimers'[<<r, q>>].due = now + RECONNECT_GRACE_PERIOD_MS
       /\ \A r \in DOMAIN rooms : \A i \in DOMAIN rooms[r].players :
             (/\ InGrace(rooms[r].players[i])
              /\ ~\E s \in GameSockets :
                     /\ sockets[s].visiblePlayerId = rooms[r].players[i].id
                     /\ Leave(s)) =>
                /\ r \in DOMAIN rooms'
                /\ \E j \in DOMAIN rooms'[r].players :
                      /\ rooms'[r].players[j].id = rooms[r].players[i].id
                      /\ rooms'[r].players[j].color = rooms[r].players[i].color
                /\ rooms[r].hostId = rooms[r].players[i].id =>
                      rooms'[r].hostId = rooms[r].hostId]_vars

\* C17 witness: the host has left room r1 over its open connection; its
\* seat and room membership are gone at once and the connected Red player
\* is host.
LeaveVacatesCloseKeepsWitness ==
    /\ "r1" \in DOMAIN rooms
    /\ sockets["s1"].open
    /\ sockets["s1"].visiblePlayerId = "p1"
    /\ "p1" \notin DOMAIN playerRooms
    /\ rooms["r1"].players = <<NewSeat("p2", "red")>>
    /\ rooms["r1"].hostId = "p2"
    /\ rooms["r1"].createdAt = now
    /\ emitted = <<Ev("room:player_left", "blue")>>


\* C18: after every step every room has one or two seats, of different
\* player ids and different colours, and every player that has a seat in
\* a room before and after the step has the same colour in it.
SeatsDistinctColourKept ==
    [][\A r \in DOMAIN rooms' :
          /\ Len(rooms'[r].players) \in {1, 2}
          /\ \A i, j \in DOMAIN rooms'[r].players :
                i # j => /\ rooms'[r].players[i].id # rooms'[r].players[j].id
                         /\ rooms'[r].players[i].color # rooms'[r].players[j].color
          /\ \A j \in DOMAIN rooms'[r].players :
                rooms'[r].players[j].color \in Players
          /\ r \in DOMAIN rooms =>
                \A i \in DOMAIN rooms[r].players, j \in DOMAIN rooms'[r].players :
                   rooms[r].players[i].id = rooms'[r].players[j].id =>
                      rooms[r].players[i].color = rooms'[r].players[j].color]_vars

\* C18 witness: after the Blue seat was vacated and the third player
\* joined, the room holds Red first and Blue second, with the third player
\* on Blue.
SeatsDistinctColourKeptWitness ==
    /\ "r1" \in DOMAIN rooms
    /\ Len(rooms["r1"].players) = 2
    /\ rooms["r1"].players[1].color = "red"
    /\ rooms["r1"].players[2] = NewSeat("p3", "blue")


\* The five codes of the checks of a move request.
MoveCheckCodes ==
    {"NOT_IN_ROOM", "GAME_OVER", "NOT_YOUR_TURN", "NOT_YOUR_PIECE", "INVALID_MOVE"}

\* The code of the first of the four checks on the game that the request
\* (from, to) of color fails in game state g, "" if it passes them all.
FirstFailingCheck(from, to, g, color) ==
    IF g.status # "playing" THEN "GAME_OVER"
    ELSE IF g.currentPlayer # color THEN "NOT_YOUR_TURN"
    ELSE IF from \notin Cells(Own(color, g)) THEN "NOT_YOUR_PIECE"
    ELSE IF \/ ~Includes(BOARD_GRAPH[from], to)
            \/ to \in Cells(g.bluePieces) \cup Cells(g.redPieces) THEN "INVALID_MOVE"
    ELSE ""

\* C19: a move request of a connection without a room, colour or player
\* binding is answered with NOT_IN_ROOM; a request of a bound connection
\* that the move limiter admits and whose room exists is answered with the
\* code of the first check it fails, in the order GAME_OVER, NOT_YOUR_TURN,
\* NOT_YOUR_PIECE, INVALID_MOVE; a rejected request changes no room; and a
\* request that passes all the checks is answered with none of the five
\* codes.
MoveChecksInOrder ==
    [][\A s \in SocketIds, r \in MoveRequests :
          Move(s, r.from, r.to) =>
             IF sockets[s].roomId = "" \/ sockets[s].color = ""
                   \/ sockets[s].visiblePlayerId = ""
             THEN /\ emitted' = <<Err("NOT_IN_ROOM")>>
                  /\ rooms' = rooms
             ELSE (Admitted(s) /\ sockets[s].roomId \in DOMAIN rooms) =>
                     IF FirstFailingCheck(r.from, r.to,
                                          rooms[sockets[s].roomId].gameState,
                                          sockets[s].color) # ""
                     THEN /\ emitted' =
                               <<Err(FirstFailingCheck(r.from, r.to,
                                                       rooms[sockets[s].roomId].gameState,
                                                       sockets[s].color))>>
                          /\ rooms' = rooms
                     ELSE ~(/\ emitted'[1].event = "room:error"
                            /\ emitted'[1].code \in MoveCheckCodes)]_vars

\* C19 witness: it is Blue's turn and a request of Red to move from a
\* cell that holds no Red piece has just been answered with NOT_YOUR_TURN,
\* the earlier of the two checks it fails.
MoveChecksInOrderWitness ==
    /\ "r1" \in DOMAIN rooms
    /\ Game.status = "playing"
    /\ Game.currentPlayer = "blue"
    /\ Len(Game.moveHistory) = 2
    /\ Cells(Game.redPieces) \cap RequestCells = {"CR"}
    /\ emitted = <<Err("NOT_YOUR_TURN")>>


\* The connections the limiter counts for origin ip.
Counted(ip) == IF ip \in DOMAIN ipData THEN ipData[ip].connections ELSE {}

\* The open connections that were admitted from origin ip.
OpenFrom(ip) == {s \in SocketIds : sockets[s].open /\ sockets[s].clientIp = ip}

\* C20: after every step the connections counted for an origin are its
\* open admitted connections and number at most maxConnectionsPerIp; a
\* connection attempt from an origin that holds maxConnectionsPerIp
\* connections is answered with RATE_LIMIT_CONNECTIONS, is not opened and
\* leaves every count as it is; an attempt from an origin that holds fewer
\* is admitted and counted; and the close of a connection removes that
\* connection from the count of its origin and no other.
ConnectionsPerOriginCapped ==
    [][/\ \A ip \in Origins :
             /\ Counted(ip)' = OpenFrom(ip)'
             /\ Cardinality(OpenFrom(ip)') <= maxConnectionsPerIp
       /\ \A s \in SocketIds, ip \in Origins :
             Connect(s, ip) =>
                IF Cardinality(OpenFrom(ip)) >= maxConnectionsPerIp
                THEN /\ emitted' = <<Err("RATE_LIMIT_CONNECTIONS")>>
                     /\ sockets' = sockets
                     /\ \A o \in Origins : Counted(o)' = Counted(o)
                ELSE /\ sockets'[s].open
                     /\ sockets'[s].clientIp = ip
                     /\ Counted(ip)' = Counted(ip) \cup {s}
                     /\ \A o \in Origins \ {ip} : Counted(o)' = Counted(o)
       /\ \A s \in SocketIds, ip \in Origins :
             (sockets[s].clientIp = ip /\ Disconnect(s)) =>
                /\ Counted(ip)' = Counted(ip) \ {s}
                /\ Cardinality(Counted(ip)') = Cardinality(Counted(ip)) - 1
                /\ \A o \in Origins \ {ip} : Counted(o)' = Counted(o)]_vars

\* C20 witness: an origin holds maxConnectionsPerIp open connections and
\* the attempt of one more connection from it has just been refused.
ConnectionsPerOriginCappedWitness ==
    /\ Cardinality(OpenFrom("ip1")) = maxConnectionsPerIp
    /\ Counted("ip1") = OpenFrom("ip1")
    /\ \E s \in SocketIds : ~sockets[s].open
    /\ emitted = <<Err("RATE_LIMIT_CONNECTIONS")>>


\* The origin of the client that uses playerId.
OriginOfPlayer(playerId) ==
    OriginOf[CHOOSE s \in SocketIds : PlayerOf[s] = playerId]

\* Whether a client of origin ip created a room less than the cooldown
\* ago (where rooms stay and keep their creator as host).
CreatedRecently(ip) ==
    \E r \in DOMAIN rooms :
        /\ OriginOfPlayer(rooms[r].hostId) = ip
        /\ now - rooms[r].createdAt < roomCreationCooldownMs

\* The time of the last room creation the limiter has on record for ip.
LastCreation(d, ip) == IF ip \in DOMAIN d THEN d[ip].lastRoomCreation ELSE 0

\* C21: a join to a room id that does not exist is answered with
\* RATE_LIMIT_ROOM_COOLDOWN exactly when a client of the same origin
\* created a room less than the cooldown ago; a join to an existing room
\* is never answered with it and leaves the origin's cooldown as it is.
CooldownExactlyAfterCreation ==
    [][\A s \in SocketIds :
          Join(s, HomeRoom[s], PlayerOf[s], "") =>
             IF HomeRoom[s] \notin DOMAIN rooms
             THEN (emitted' = <<Err("RATE_LIMIT_ROOM_COOLDOWN")>>)
                     <=> CreatedRecently(OriginOf[s])
             ELSE /\ emitted' # <<Err("RATE_LIMIT_ROOM_COOLDOWN")>>
                  /\ LastCreation(ipData', OriginOf[s])
                        = LastCreation(ipData, OriginOf[s])]_vars


\* The timestamps of a record that lie in the minute ending at time t.
InWindow(stamps, t) == SelectSeq(stamps, LAMBDA x : x > t - ONE_MINUTE)

\* What a limiter with bound max does with a request at time now, given the
\* record before and after and whether the request was rejected.
WindowStep(before, after, max, rejected) ==
    IF Len(InWindow(before, now)) < max
    THEN /\ ~rejected
         /\ InWindow(after, now) = Append(InWindow(before, now), now)
    ELSE /\ rejected
         /\ InWindow(after, now) = InWindow(before, now)

\* C22: for every origin, the record of the last minute never holds more
\* than maxMovesPerMinute moves or maxEventsPerMinute settings/reset
\* requests; a request of a seated connection passes the limiter exactly
\* when the record of the last minute holds fewer than the bound, a request
\* that passes is added to the record and a rejected one is not.
WindowsBounded ==
    [][/\ \A ip \in DOMAIN ipData' :
             /\ Len(InWindow(ipData'[ip].moveTimestamps, now')) <= maxMovesPerMinute
             /\ Len(InWindow(ipData'[ip].eventTimestamps, now')) <= maxEventsPerMinute
       /\ \A s \in GameSockets :
             LET ip == sockets[s].clientIp
             IN /\ Move(s, "L2", "CC") =>
                     WindowStep(ipData[ip].moveTimestamps, ipData'[ip].moveTimestamps,
                                maxMovesPerMinute,
                                emitted' = <<Err("RATE_LIMIT_MOVES")>>)
                /\ (Reset(s) \/ \E settings \in SettingsRequests : Settings(s, settings)) =>
                     WindowStep(ipData[ip].eventTimestamps, ipData'[ip].eventTimestamps,
                                maxEventsPerMinute,
                                emitted' = <<Err("RATE_LIMIT_EVENTS")>>)]_vars

\* After time has passed, the record holds seven moves of the last minute,
\* the last of them admitted now, and an event request is being rejected.
WindowsBoundedWitness ==
    /\ now = StartTime + MaxAdvance
    /\ "ip1" \in DOMAIN ipData
    /\ Len(ipData["ip1"].moveTimestamps) = maxMovesPerMinute
    /\ ipData["ip1"].moveTimestamps[maxMovesPerMinute] = now
    /\ ipData["ip1"].moveTimestamps[1] = now - ONE_MINUTE + 1
    /\ emitted = <<Err("RATE_LIMIT_EVENTS")>>


\* Whether the player of socket s has, in the room the socket names, the
\* seat of the colour the socket names.
OccupiesSeat(s) ==
    /\ sockets[s].roomId \in DOMAIN rooms
    /\ \E i \in DOMAIN rooms[sockets[s].roomId].players :
          /\ rooms[sockets[s].roomId].players[i].id = sockets[s].visiblePlayerId
          /\ rooms[sockets[s].roomId].players[i].color = sockets[s].color

\* C23: a move request of a connection whose player does not occupy the
\* seat of the connection's colour in the connection's room (the player
\* left the room, say) is rejected with NOT_IN_ROOM and changes no room.
MovesOnlyFromOwnSeat ==
    [][\A s \in GameSockets, r \in MoveRequests :
          (~OccupiesSeat(s) /\ Move(s, r.from, r.to)) =>
              /\ emitted' = <<Err("NOT_IN_ROOM")>>
              /\ rooms' = rooms]_vars


\* C24: a countdown tick that broadcasts a time or plays an auto-move acts
\* on a room whose current record has blitz enabled and status playing,
\* also after the room was destroyed and created again with the same id.
CountdownOnlyOnBlitzPlaying ==
    [][\A handle \in DOMAIN intervals :
          (Tick(handle) /\ emitted' # <<>>) =>
              /\ intervals[handle].roomId \in DOMAIN rooms
              /\ rooms[intervals[handle].roomId].settings.blitzEnabled
              /\ rooms[intervals[handle].roomId].gameState.status = "playing"]_vars


\* Whether room r exists and has a seat whose id is p.
HasSeat(r, p) ==
    /\ r \in DOMAIN rooms
    /\ \E i \in DOMAIN rooms[r].players : rooms[r].players[i].id = p

RejectedMoveChangesNothing ==
    [][\A s \in GameSockets, r \in MoveRequests :
          (/\ emitted' # <<>>
           /\ emitted'[1].event = "room:error"
           /\ Move(s, r.from, r.to)) =>
              /\ rooms' = rooms
              /\ playerRooms' = playerRooms
              /\ disconnectTimers' = disconnectTimers
              /\ intervals' = intervals
              /\ roomTimers' = roomTimers]_vars

\* A request out of turn has just been rejected while the countdown of
\* the room is running with one tick left.
RejectedMoveChangesNothingWitness ==
    /\ emitted = <<Err("NOT_YOUR_TURN")>>
    /\ "r1" \in DOMAIN roomTimers
    /\ roomTimers["r1"] \in DOMAIN intervals
    /\ intervals[roomTimers["r1"]].timeLeft = 1
    /\ rooms["r1"].gameState.status = "playing"


\* Whether every room whose game is playing has a legal move for the
\* player to move.
MoverCanMove(rms) ==
    \A roomId \in DOMAIN rms :
        rms[roomId].gameState.status = "playing" =>
            ~Stuck(rms[roomId].gameState.currentPlayer, rms[roomId].gameState)

\* C27: in every room state whose status is playing the player to move
\* has a piece with an unoccupied neighbour, and a countdown that reaches
\* zero in a playing room plays a move (game:state follows the last
\* game:timer) instead of taking the branch for no legal move.
PlayingMoverHasMove ==
    [][/\ MoverCanMove(rooms)
       /\ MoverCanMove(rooms')
       /\ \A handle \in DOMAIN intervals :
             (/\ intervals[handle].timeLeft = 1
              /\ intervals[handle].roomId \in DOMAIN rooms
              /\ rooms[intervals[handle].roomId].gameState.status = "playing"
              /\ Tick(handle)) =>
                 /\ Len(emitted') = 2
                 /\ emitted'[2].event = "game:state"
                 /\ rooms' # rooms]_vars

\* A move has left the player to move without a legal move while no side
\* is home, and the room's status is the win of the opponent.
PlayingMoverHasMoveWitness ==
    /\ Stuck(Game.currentPlayer, Game)
    /\ ~(Cells(Game.bluePieces) \subseteq {"R1", "R2", "R3"})
    /\ ~(Cells(Game.redPieces) \subseteq {"L1", "L2", "L3"})
    /\ Len(Game.moveHistory) > 0
    /\ Game.status = (IF Game.currentPlayer = "blue" THEN "red_wins" ELSE "blue_wins")


\* The cells of a set in board order.
InBoardOrder(cells) ==
    CHOOSE q \in [1..Cardinality(cells) -> cells] :
        /\ Range(q) = cells
        /\ \A i \in 1..(Len(q) - 1) : PosRank[q[i]] < PosRank[q[i + 1]]

\* The snapshot of a position: the player to move, the Blue cells and the
\* Red cells, each in board order.
Snapshot(player, blue, red) == <<player, InBoardOrder(blue), InBoardOrder(red)>>

\* The snapshot the legal move (from, to) of the player to move produces.
SnapshotAfter(from, to, state) ==
    LET mover == state.currentPlayer
        moved == (Cells(Own(mover, state)) \ {from}) \cup {to}
    IN IF mover = "blue"
       THEN Snapshot("red", moved, Cells(state.redPieces))
       ELSE Snapshot("blue", Cells(state.bluePieces), moved)

\* Whether the last recorded move of the player to move is to -> from.
TakesBack(from, to, state) ==
    LET own == MovesOf(state.currentPlayer, state.moveHistory)
    IN /\ Len(own) >= 1
       /\ own[Len(own)].from = to
       /\ own[Len(own)].to = from

\* C28: for a legal move (from, to) of the player to move checkRepetition
\* returns isPieceBounce = the mover's previous recorded move is to -> from;
\* boardRepetitionCount = the number of recorded snapshots equal to the
\* snapshot the move would produce, plus one; shouldWarn and shouldBlock =
\* (isPieceBounce or boardRepetitionCount >= 3) and the rule is enabled;
\* shouldForfeit = the same with forfeit enabled and the mover's warning
\* counter at 2 or more.
CheckRepetitionResult ==
    \A r \in MoveRequests, enabledRules \in RuleSets :
        Legal(r.from, r.to, engineState, engineState.currentPlayer) =>
            LET bounce == TakesBack(r.from, r.to, engineState)
                snapshot == SnapshotAfter(r.from, r.to, engineState)
                count == Cardinality({i \in DOMAIN engineState.boardStateHistory :
                                        engineState.boardStateHistory[i] = snapshot}) + 1
                repeats == bounce \/ count >= 3
                warned == engineState.repetitionWarnings[engineState.currentPlayer]
            IN checkRepetition(r.from, r.to, engineState, enabledRules) =
                  [isPieceBounce |-> bounce,
                   boardRepetitionCount |-> count,
                   shouldWarn |-> repeats /\ "warning" \in enabledRules,
                   shouldBlock |-> repeats /\ "block" \in enabledRules,
                   shouldForfeit |-> repeats /\ "forfeit" \in enabledRules /\ warned >= 2]

\* A checked move has ended in Blue's forfeit with no move on record: the
\* move produced a snapshot for the third time without being a bounce.
CheckRepetitionResultWitness ==
    /\ engineState.status = "blue_forfeit"
    /\ engineState.moveHistory = <<>>
    /\ Len(engineState.boardStateHistory) = 2
    /\ CheckRepetitionResult


\* Whether the last two moves of player in history, whatever the opponent
\* played in between, are inverses of each other.
LastTwoInverse(history, player) ==
    \E i \in DOMAIN history, j \in DOMAIN history :
        /\ i < j
        /\ history[i].player = player
        /\ history[j].player = player
        /\ \A k \in DOMAIN history : (k > i /\ k # j) => history[k].player # player
        /\ history[i].from = history[j].to
        /\ history[i].to = history[j].from

\* C29: detectPieceBounce(history, player) is true exactly when the player
\* has at least two recorded moves and the last two of them are inverses of
\* each other; with Blue L2 -> CL, a Red move, Blue CL -> L2 on record it
\* is true for Blue, and it is false for Blue with only the first of these
\* moves or the first two on record.
BounceIsLastTwoInverse ==
    LET history == engineState.moveHistory
    IN /\ \A player \in Players :
             detectPieceBounce(history, player) = LastTwoInverse(history, player)
       /\ (/\ Len(history) >= 1
           /\ history[1] = [from |-> "L2", to |-> "CL", player |-> "blue"]) =>
              ~detectPieceBounce(SubSeq(history, 1, 1), "blue")
       /\ (/\ Len(history) = 3
           /\ history[1] = [from |-> "L2", to |-> "CL", player |-> "blue"]
           /\ history[2].player = "red"
           /\ history[3] = [from |-> "CL", to |-> "L2", player |-> "blue"]) =>
              /\ detectPieceBounce(history, "blue")
              /\ ~detectPieceBounce(SubSeq(history, 1, 2), "blue")

\* From the initial state Blue has played L2 -> CL, Red has moved and
\* Blue has played CL -> L2, which was reported as Blue's first bounce.
BounceIsLastTwoInverseWitness ==
    /\ Len(engineState.moveHistory) = 3
    /\ engineState.moveHistory[1] = [from |-> "L2", to |-> "CL", player |-> "blue"]
    /\ engineState.moveHistory[2].player = "red"
    /\ engineState.moveHistory[3] = [from |-> "CL", to |-> "L2", player |-> "blue"]
    /\ Len(engineState.boardStateHistory) = 3
    /\ engineState.repetitionWarnings = [blue |-> 1, red |-> 0]
    /\ detectPieceBounce(engineState.moveHistory, "blue")


\* Whether after is before, or before with one entry added at the end.
SameOrOneMore(before, after) ==
    \/ after = before
    \/ /\ Len(after) = Len(before) + 1
       /\ SubSeq(after, 1, Len(before)) = before

\* C30: every step of a room's game other than a reset leaves moveHistory
\* and boardStateHistory unchanged or extends each of them by one entry at
\* the end; the two histories have the same length, and the last snapshot,
\* if there is one, is the player to move followed by the Blue cells and
\* the Red cells in board order, a value fixed by the two sets of occupied
\* cells and the player to move.
HistoriesGrowTogether ==
    [][("r1" \in DOMAIN rooms /\ "r1" \in DOMAIN rooms') =>
          LET g == rooms["r1"].gameState
              gNext == rooms'["r1"].gameState
          IN /\ \/ /\ SameOrOneMore(g.moveHistory, gNext.moveHistory)
                   /\ SameOrOneMore(g.boardStateHistory, gNext.boardStateHistory)
                \/ \E s \in GameSockets : Reset(s)
             /\ Len(gNext.moveHistory) = Len(gNext.boardStateHistory)
             /\ Len(gNext.boardStateHistory) > 0 =>
                   gNext.boardStateHistory[Len(gNext.boardStateHistory)] =
                      Snapshot(gNext.currentPlayer, Cells(gNext.bluePieces),
                               Cells(gNext.redPieces))]_vars

\* Several moves are on record and the Blue pieces are stored out of board
\* order, so that the snapshot differs from the stored lists.
HistoriesGrowTogetherWitness ==
    /\ Len(Game.moveHistory) >= 3
    /\ Len(Game.boardStateHistory) = Len(Game.moveHistory)
    /\ \E i \in 1..2 : PosRank[Game.bluePieces[i]] > PosRank[Game.bluePieces[i + 1]]
    /\ Game.boardStateHistory[Len(Game.boardStateHistory)] =
          Snapshot(Game.currentPlayer, Cells(Game.bluePieces), Cells(Game.redPieces))


\* C31: in a step of a room's game other than a reset no warning counter
\* decreases; a game:move step changes at most the counter of the player to
\* move before it, by exactly 1, and never the opponent's counter.
WarningsOnlyGrow ==
    [][("r1" \in DOMAIN rooms /\ "r1" \in DOMAIN rooms') =>
          LET g == rooms["r1"].gameState
              gNext == rooms'["r1"].gameState
              mover == g.currentPlayer
          IN /\ \/ \A player \in Players :
                      gNext.repetitionWarnings[player] >= g.repetitionWarnings[player]
                \/ /\ \E s \in GameSockets : Reset(s)
                   /\ gNext.repetitionWarnings = [blue |-> 0, red |-> 0]
             /\ (\E s \in GameSockets, r \in MoveRequests : Move(s, r.from, r.to)) =>
                   /\ gNext.repetitionWarnings[Opponent(mover)] =
                         g.repetitionWarnings[Opponent(mover)]
                   /\ gNext.repetitionWarnings[mover] - g.repetitionWarnings[mover]
                         \in {0, 1}
                   /\ gNext.repetitionWarnings[mover] # g.repetitionWarnings[mover] =>
                         Len(gNext.moveHistory) = Len(g.moveHistory) + 1]_vars

\* Blue's take-back has been applied with a warning: Blue's counter is 1,
\* Red's is 0 and Red is to move.
WarningsOnlyGrowWitness ==
    /\ Game.repetitionWarnings = [blue |-> 1, red |-> 0]
    /\ Game.currentPlayer = "red"
    /\ Len(Game.moveHistory) = 3
    /\ emitted = <<Ev("game:state", "")>>


\* Room r1 exists and the connection of every seated player has closed.
AllSeatsClosed ==
    /\ "r1" \in DOMAIN rooms
    /\ \A i \in DOMAIN rooms["r1"].players : ~rooms["r1"].players[i].connected

\* Nothing is left of room r1: no record, no index entry, no grace timer.
RoomGone ==
    /\ "r1" \notin DOMAIN rooms
    /\ \A p \in DOMAIN playerRooms : playerRooms[p] # "r1"
    /\ \A key \in DOMAIN disconnectTimers : key[1] # "r1"

\* A player has joined room r1: it has a connected seat.
SomeoneJoined ==
    /\ "r1" \in DOMAIN rooms
    /\ \E i \in DOMAIN rooms["r1"].players : rooms["r1"].players[i].connected

\* C32: once the connections of all seated players of a room have closed,
\* then, grace timers firing when due, either somebody joins the room or
\* every seat is vacated, the room record is destroyed and no index entry
\* and no grace timer of the room remains.
ClosedRoomIsDestroyed == AllSeatsClosed ~> (RoomGone \/ SomeoneJoined)

\* Both seats of room r1 are taken and both connections have closed, with
\* two grace timers pending.
ClosedRoomIsDestroyedWitness ==
    /\ AllSeatsClosed
    /\ Len(rooms["r1"].players) = 2
    /\ Cardinality(DOMAIN disconnectTimers) = 2


\* The rooms without a connected or in-grace seat that are older than age.
StaleRooms(age) ==
    {roomId \in DOMAIN rooms :
        /\ \A i \in DOMAIN rooms[roomId].players : ~Holds(rooms[roomId].players[i])
        /\ now - rooms[roomId].createdAt > age}

\* Whether playerId has a seat in one of the rooms rms.
SeatedIn(playerId, rms) ==
    \E roomId \in rms, i \in 1..2 :
        /\ i \in DOMAIN rooms[roomId].players
        /\ rooms[roomId].players[i].id = playerId

\* C33: a stale-room sweep destroys exactly the rooms without a connected
\* or in-grace seat whose age exceeds the threshold, removes the index
\* entries and the pending grace timers of their players, returns the
\* number of rooms destroyed and leaves every other room, index entry and
\* grace timer as it is.
SweepDestroysStaleOnly ==
    [][\A age \in SweepAges :
          Sweep(age) =>
             LET stale == StaleRooms(age)
             IN /\ DOMAIN rooms' = DOMAIN rooms \ stale
                /\ \A roomId \in DOMAIN rooms' : rooms'[roomId] = rooms[roomId]
                /\ DOMAIN playerRooms' =
                      {p \in DOMAIN playerRooms : ~SeatedIn(p, stale)}
                /\ \A p \in DOMAIN playerRooms' : playerRooms'[p] = playerRooms[p]
                /\ DOMAIN disconnectTimers' =
                      {key \in DOMAIN disconnectTimers :
                          ~(key[1] \in stale /\ SeatedIn(key[2], {key[1]}))}
                /\ \A key \in DOMAIN disconnectTimers' :
                      disconnectTimers'[key] = disconnectTimers[key]
                /\ cleanupStaleRooms(manager, age, now).cleaned = Cardinality(stale)
                /\ emitted' = IF stale = {} THEN <<>>
                              ELSE <<EvTime("console.log", Cardinality(stale))>>]_vars

\* A sweep has destroyed the one room, and with it the grace timers that
\* were still pending for its seats.
SweepDestroysStaleOnlyWitness ==
    /\ emitted = <<EvTime("console.log", 1)>>
    /\ rooms = EmptyMap
    /\ playerRooms = EmptyMap
    /\ disconnectTimers = EmptyMap
    /\ now = StartTime + MaxAdvance


\* C34: the hostId of every existing room is the id of a player seated in
\* that room.
HostIsSeated ==
    \A roomId \in DOMAIN rooms :
        \E i \in DOMAIN rooms[roomId].players :
            rooms[roomId].players[i].id = rooms[roomId].hostId


\* Whether a connection other than s is open and bound to the room and
\* the player id of s.
HasTwin(s) ==
    \E other \in SocketIds \ {s} :
        /\ sockets[other].open
        /\ sockets[other].roomId = sockets[s].roomId
        /\ sockets[other].visiblePlayerId = sockets[s].visiblePlayerId

\* C35: the close of a connection whose player has another open connection
\* bound to the same room leaves the player's seat as it is and arms no
\* grace timer.
CloseOfOlderConnectionKeepsSeat ==
    [][\A s \in GameSockets :
          (/\ sockets[s].roomId \in DOMAIN rooms
           /\ HasTwin(s)
           /\ Disconnect(s)) =>
              /\ rooms' = rooms
              /\ disconnectTimers' = disconnectTimers]_vars


\* C36: a join request that is rejected, with room:password_required or
\* with a room:error of any code, leaves every room record and the player
\* index as they are, so the requester keeps a seat held in another room.
RejectedJoinChangesNothing ==
    [][\A s \in SocketIds, roomId \in TwoRoomIds :
          (/\ emitted' # <<>>
           /\ emitted'[Len(emitted')].event \in {"room:error", "room:password_required"}
           /\ Join(s, roomId, PlayerOf[s], "")) =>
              /\ rooms' = rooms
              /\ playerRooms' = playerRooms]_vars


\* A game played by hand under the rule set warning, block and forfeit,
\* which the host has set before the first move: the eight requests that
\* take Blue's piece from L2 to R2 and Red's piece from R2 to L2, each sent
\* by the player to move.
CrossingRequests ==
    <<[from |-> "L2", to |-> "CL"], [from |-> "R2", to |-> "CR"],
      [from |-> "CL", to |-> "CC"], [from |-> "CR", to |-> "CT"],
      [from |-> "CC", to |-> "CR"], [from |-> "CT", to |-> "CL"],
      [from |-> "CR", to |-> "R2"], [from |-> "CL", to |-> "L2"]>>

RECURSIVE PlayedOut(_, _)
\* The game state the game:move handler leaves after the requests, each
\* sent by the player to move: a rejected or blocked request leaves the
\* state as it is.
PlayedOut(requests, enabledRules) ==
    IF requests = <<>> THEN createInitialGameState
    ELSE LET before == PlayedOut(SubSeq(requests, 1, Len(requests) - 1), enabledRules)
             r == requests[Len(requests)]
         IN IF moveRejection(r.from, r.to, before, before.currentPlayer) # ""
            THEN before
            ELSE moveDecision(r.from, r.to, before, enabledRules,
                              before.currentPlayer).newState

BlockRules == {"warning", "block", "forfeit"}

\* Room r1 after the eight requests; the room was created, and the
\* requests were sent, more than a minute before StartTime.
InitCrossed ==
    /\ engineState = createInitialGameState
    /\ rooms = MapSet(EmptyMap, "r1",
                      [GameRoom EXCEPT !.settings.enabledRules = BlockRules,
                                       !.gameState = PlayedOut(CrossingRequests, BlockRules),
                                       !.createdAt = 1])
    /\ playerRooms = MapSet(MapSet(EmptyMap, "p1", "r1"), "p2", "r1")
    /\ disconnectTimers = EmptyMap
    /\ intervals = EmptyMap
    /\ roomTimers = EmptyMap
    /\ sockets = [s \in SocketIds |->
                     IF s = "s1"
                     THEN [open |-> TRUE, clientIp |-> "ip1", visiblePlayerId |-> "p1",
                           roomId |-> "r1", color |-> "blue"]
                     ELSE IF s = "s2"
                     THEN [open |-> TRUE, clientIp |-> "ip1", visiblePlayerId |-> "p2",
                           roomId |-> "r1", color |-> "red"]
                     ELSE BlankSocket]
    /\ ipData = MapSet(EmptyMap, "ip1",
                       [connections |-> {"s1", "s2"}, lastRoomCreation |-> 1,
                        moveTimestamps |-> <<>>, eventTimestamps |-> <<>>])
    /\ now = StartTime
    /\ emitted = <<>>

NextCrossed ==
    \/ \E s \in GameSockets, from \in Positions, to \in Positions : Move(s, from, to)
    \/ \E s \in GameSockets, settings \in SettingsRequests : Settings(s, settings)
    \/ Advance

SpecCrossed == InitCrossed /\ [][NextCrossed]_vars

\* C37: in every room whose game is playing, some request of the player to
\* move passes the checks of the game:move handler and is not answered
\* with MOVE_BLOCKED, whatever repetition rules are enabled.
MoverHasAcceptedRequest ==
    \A roomId \in DOMAIN rooms :
        rooms[roomId].gameState.status = "playing" =>
            \E from \in Positions, to \in Positions :
                /\ moveRejection(from, to, rooms[roomId].gameState,
                                 rooms[roomId].gameState.currentPlayer) = ""
                /\ ~moveDecision(from, to, rooms[roomId].gameState,
                                 rooms[roomId].settings.enabledRules,
                                 rooms[roomId].gameState.currentPlayer).blocked


\* C38: a join or reconnect request to a room whose countdown is running
\* leaves the countdown running with the remaining time it had; it is not
\* set back to the full limit.
JoinKeepsCountdown ==
    [][\A s \in GameSockets, roomId \in DOMAIN roomTimers :
          (/\ roomTimers[roomId] \in DOMAIN intervals
           /\ Join(s, roomId, PlayerOf[s], "")) =>
              /\ roomId \in DOMAIN roomTimers'
              /\ roomTimers'[roomId] \in DOMAIN intervals'
              /\ intervals'[roomTimers'[roomId]].timeLeft =
                     intervals[roomTimers[roomId]].timeLeft]_vars


\* C39: a countdown that reaches zero in a playing room plays a move under
\* every rule set: the move history grows by one move of the player on the
\* clock, both warning counters stay as they are, and the status afterwards
\* is playing, blue_wins or red_wins, also when the move takes back the
\* player's previous move.
ExpiryMoveIgnoresRepetition ==
    [][\A handle \in DOMAIN intervals :
          (/\ intervals[handle].timeLeft = 1
           /\ intervals[handle].roomId \in DOMAIN rooms
           /\ rooms[intervals[handle].roomId].gameState.status = "playing"
           /\ Tick(handle)) =>
              LET g == rooms[intervals[handle].roomId].gameState
                  gNext == rooms'[intervals[handle].roomId].gameState
              IN /\ Len(gNext.moveHistory) = Len(g.moveHistory) + 1
                 /\ gNext.moveHistory[Len(gNext.moveHistory)].player = g.currentPlayer
                 /\ gNext.repetitionWarnings = g.repetitionWarnings
                 /\ gNext.status \in {"playing", "blue_wins", "red_wins"}]_vars

\* With warning and forfeit enabled, the countdown has just played for Blue
\* the move that takes back Blue's previous move: no warning is counted and
\* the game goes on.
ExpiryMoveIgnoresRepetitionWitness ==
    /\ Len(emitted) = 2
    /\ emitted[1] = EvTime("game:timer", 0)
    /\ emitted[2].event = "game:state"
    /\ Len(Game.moveHistory) = 3
    /\ LastTwoInverse(Game.moveHistory, "blue")
    /\ {"warning", "forfeit"} \subseteq rooms["r1"].settings.enabledRules
    /\ Game.repetitionWarnings = [blue |-> 0, red |-> 0]
    /\ Game.status = "playing"


\* The limiter's housekeeping at work: player p1, alone in room r1 which it
\* created over socket s1 one time unit before StartTime, closes and
\* reopens its connection, rejoins r1, asks for the new room r2, sends
\* moves the rules refuse and resets, while time passes and the
\* housekeeping runs at any point.  The origin's record holds a full
\* window of moves, and either no event or a full window of events, sent
\* MaxAdvance time units before StartTime.
EarlierStamps(maxLen) == [i \in 1..maxLen |-> StartTime - MaxAdvance]

InitHousekeeping ==
    /\ engineState = createInitialGameState
    /\ rooms = MapSet(EmptyMap, "r1",
                      [GameRoom EXCEPT !.players = <<GameRoom.players[1]>>,
                                       !.createdAt = StartTime - 1])
    /\ playerRooms = MapSet(EmptyMap, "p1", "r1")
    /\ disconnectTimers = EmptyMap
    /\ intervals = EmptyMap
    /\ roomTimers = EmptyMap
    /\ sockets = [s \in SocketIds |->
                     IF s = "s1"
                     THEN [open |-> TRUE, clientIp |-> "ip1", visiblePlayerId |-> "p1",
                           roomId |-> "r1", color |-> "blue"]
                     ELSE BlankSocket]
    /\ \E events \in {<<>>, EarlierStamps(maxEventsPerMinute)} :
          ipData = MapSet(EmptyMap, "ip1",
                          [connections |-> {"s1"},
                           lastRoomCreation |-> StartTime - 1,
                           moveTimestamps |-> EarlierStamps(maxMovesPerMinute),
                           eventTimestamps |-> events])
    /\ now = StartTime
    /\ emitted = <<>>

NextHousekeeping ==
    \/ Connect("s1", "ip1")
    \/ \E roomId \in TwoRoomIds : Join("s1", roomId, "p1", "")
    \/ Move("s1", "L2", "CC")
    \/ Reset("s1")
    \/ Disconnect("s1")
    \/ Cleanup
    \/ Advance

SpecHousekeeping == InitHousekeeping /\ [][NextHousekeeping]_vars

\* Whether two answers of a limiter check are the same answer and leave
\* records that the housekeeping at time t makes equal.
SameAnswer(a, b, t) ==
    /\ a.allowed = b.allowed
    /\ cleanup(a.d, t) = cleanup(b.d, t)

\* Whether, with the records d at time t, every check answers after the
\* housekeeping as it answers without it, and leaves the same records up
\* to housekeeping, at t and after any further passage of time.
HousekeepingUnseen(d, t) ==
    LET n == cleanup(d, t)
    IN /\ \A later \in t..(StartTime + MaxAdvance) : cleanup(n, later) = cleanup(d, later)
       /\ \A ip \in Origins :
             /\ SameAnswer(checkMove(n, ip, t), checkMove(d, ip, t), t)
             /\ SameAnswer(checkEvent(n, ip, t), checkEvent(d, ip, t), t)
             /\ SameAnswer(checkRoomCreation(n, ip, TRUE, t),
                           checkRoomCreation(d, ip, TRUE, t), t)
             /\ \A s \in SocketIds :
                   /\ SameAnswer(addConnection(n, ip, s), addConnection(d, ip, s), t)
                   /\ cleanup(removeConnection(n, ip, s), t) =
                         cleanup(removeConnection(d, ip, s), t)

\* C40: whatever records the limiter holds, a connection, room-creation,
\* move or event check gets the same answer after the housekeeping as
\* without it and leaves the same records up to housekeeping, so that a
\* sequence of checks is answered the same wherever the housekeeping runs
\* in between; and the housekeeping deletes the record of an origin only
\* when the origin has no open connection, no room creation within the
\* cooldown, and no move or event inside the last minute.
HousekeepingInvisible ==
    [][/\ HousekeepingUnseen(ipData, now)
       /\ HousekeepingUnseen(ipData', now')
       /\ Cleanup =>
             \A ip \in DOMAIN ipData \ DOMAIN ipData' :
                 /\ ipData[ip].connections = {}
                 /\ now - ipData[ip].lastRoomCreation >= roomCreationCooldownMs
                 /\ \A i \in DOMAIN ipData[ip].moveTimestamps :
                       ipData[ip].moveTimestamps[i] <= now - ONE_MINUTE
                 /\ \A i \in DOMAIN ipData[ip].eventTimestamps :
                       ipData[ip].eventTimestamps[i] <= now - ONE_MINUTE]_vars

\* The connection of the origin is closed, its earlier requests have
\* left the window and its room creation the cooldown, and the
\* housekeeping has deleted its record.
HousekeepingInvisibleWitness ==
    /\ ipData = EmptyMap
    /\ emitted = <<>>
    /\ now = StartTime + MaxAdvance
    /\ ~sockets["s1"].open


=============================================================================
